---- MODULE Spec2Model ----
(***************************************************************************)
(* Lidify sidecars.                                                        *)
(*                                                                         *)
(* Channel sidecar (services/ytmusic-streamer/app.py): per-user credential *)
(* files, the handle cache _ytmusic_instances, the stream cache            *)
(* _stream_cache, the request handlers and the worker threads that run     *)
(* _get_stream_url_sync.                                                   *)
(*                                                                         *)
(* Track sidecar (services/tidal-downloader/app.py): path sanitization,    *)
(* the track download and the album download loop.                         *)
(***************************************************************************)
EXTENDS Integers, Sequences, FiniteSets, TLC

VARIABLES
    \* ---- Channel sidecar ----
    oauthFile,          \* DATA_PATH/oauth_<user_id>.json, per user id
    credsFile,          \* DATA_PATH/client_creds_<user_id>.json, per user id
    ytmusic_instances,  \* _ytmusic_instances: user id -> cached handle
    stream_cache,       \* _stream_cache: cache key -> entry
    now,                \* time.time(), whole seconds
    slots,              \* in-flight /stream and /proxy requests
    event,              \* the response of the handler that just ran, where observed
    firstGet,           \* history: per user, the last credential change and the
                        \* outcome of the first handle lookup after it
    \* ---- Channel sidecar, /proxy relay ----
    relay,              \* per slot: upstream client/response and bytes relayed
    \* ---- Track sidecar ----
    fs,                 \* the filesystem: path -> file content
    workers,            \* in-flight _download_track_sync calls
    album,              \* the /download/album request
    tidal_api,          \* _tidal_api: the module-level client
    api_lock,           \* _api_lock: the module-level lock
    api                 \* per request in flight: the client handle it built

vars == <<oauthFile, credsFile, ytmusic_instances, stream_cache,
          now, slots, event, firstGet, relay,
          fs, workers, album, tidal_api, api_lock, api>>

(***************************************************************************)
(* Bounds of the model.                                                    *)
(***************************************************************************)
MaxTicks   == 3     \* clock advances in one run
MaxLen     == 3     \* characters of a rendered template
MaxPages   == 2     \* pages of the track listing fetched in one request
MaxTracks  == 3     \* tracks retained from the listing
MaxResults == 4     \* results the platform returns for one search

(***************************************************************************)
(* Channel sidecar: values.                                                *)
(***************************************************************************)
\* user ids and video ids are arbitrary strings (query/path parameters),
\* written as sequences of characters
UserIds  == { <<"a">>, <<"a", ":", "b">> }
VideoIds == { <<"c">>, <<"b", ":", "c">> }
Slots    == { "s1", "s2" }
Qualities == { "HIGH", "LOW" }

STREAM_CACHE_TTL == 5 * 60 * 60

\* cache_key = f"{user_id}:{video_id}"
CacheKey(user_id, video_id) == user_id \o <<":">> \o video_id
CacheKeys == { CacheKey(u, v) : u \in UserIds, v \in VideoIds }

\* file contents: a text, or no file
Absent      == [k |-> "absent"]
NotJson     == [k |-> "text"]                      \* text json.loads rejects
JsonText(d) == [k |-> "json", doc |-> d]           \* json.dumps(d)
TokenDocs   == { "tokA", "tokB" }                  \* OAuth token documents
JunkDoc     == "junk"                              \* JSON, but no OAuth token
CredsDoc(id, secret) == [client_id |-> id, client_secret |-> secret]
NoKeysDoc   == [other |-> "x"]                     \* JSON object without the keys

NoHandle == [k |-> "none"]
NoCreds  == [k |-> "none"]
NoEntry  == [k |-> "none"]
IdleSlot == [pc |-> "idle"]
NoEvent  == [op |-> "init"]

JsonLoads(text) == IF text.k = "json" THEN [ok |-> TRUE, doc |-> text.doc]
                   ELSE [ok |-> FALSE]

(***************************************************************************)
(* _get_ytmusic / _invalidate_ytmusic                                      *)
(***************************************************************************)
\* variant: a client-credential file that cannot be used is ignored
LoadClientCredsIgnoresBadFile(user_id) ==
    IF credsFile[user_id] = Absent THEN [ok |-> TRUE, creds |-> NoCreds]
    ELSE LET j == JsonLoads(credsFile[user_id]) IN
         IF j.ok /\ "client_id" \in DOMAIN j.doc /\ "client_secret" \in DOMAIN j.doc
         THEN [ok |-> TRUE,
               creds |-> [k |-> "creds", client_id |-> j.doc.client_id,
                          client_secret |-> j.doc.client_secret]]
         ELSE [ok |-> TRUE, creds |-> NoCreds]

\* lines 103-109: the OAuthCredentials built from the client-credential file;
\* ok = FALSE when reading it raises (bad JSON, a key missing)
LoadClientCreds(user_id) ==
    IF credsFile[user_id] = Absent THEN [ok |-> TRUE, creds |-> NoCreds]
    ELSE LET j == JsonLoads(credsFile[user_id]) IN
         IF j.ok /\ "client_id" \in DOMAIN j.doc /\ "client_secret" \in DOMAIN j.doc
         THEN [ok |-> TRUE,
               creds |-> [k |-> "creds", client_id |-> j.doc.client_id,
                          client_secret |-> j.doc.client_secret]]
         ELSE [ok |-> FALSE]

\* YTMusic(str(oauth_path), ...): the library accepts an OAuth token document
YTMusicAccepts(doc) == doc \in TokenDocs

\* variant: the cached handle is not looked at
GetYtmusicAlwaysBuilds(user_id) ==
    IF oauthFile[user_id] # Absent
    THEN LET oauth_data == JsonLoads(oauthFile[user_id])
             cc == LoadClientCreds(user_id) IN
         IF oauth_data.ok /\ cc.ok /\ YTMusicAccepts(oauth_data.doc)
         THEN [status |-> 200, built |-> TRUE,
               yt |-> [k |-> "yt", oauth |-> oauth_data.doc, creds |-> cc.creds]]
         ELSE [status |-> 401, built |-> FALSE,
               detail |-> "OAuth credentials invalid. Please re-authenticate."]
    ELSE [status |-> 401, built |-> FALSE,
          detail |-> "Not authenticated. Please set up OAuth first."]

\* _get_ytmusic(user_id): the handle returned (or the 401 raised), and whether
\* a handle was constructed
GetYtmusic(user_id) ==
    IF ytmusic_instances[user_id] # NoHandle
    THEN [status |-> 200, yt |-> ytmusic_instances[user_id], built |-> FALSE]
    ELSE IF oauthFile[user_id] # Absent
    THEN LET oauth_data == JsonLoads(oauthFile[user_id])
             cc == LoadClientCreds(user_id) IN
         IF oauth_data.ok /\ cc.ok /\ YTMusicAccepts(oauth_data.doc)
         THEN [status |-> 200, built |-> TRUE,
               yt |-> [k |-> "yt", oauth |-> oauth_data.doc, creds |-> cc.creds]]
         ELSE [status |-> 401, built |-> FALSE,
               detail |-> "OAuth credentials invalid. Please re-authenticate."]
    ELSE [status |-> 401, built |-> FALSE,
          detail |-> "Not authenticated. Please set up OAuth first."]

\* the handle cache after _get_ytmusic(user_id) returned g
InstancesAfterGet(user_id, g) ==
    IF g.built THEN [ytmusic_instances EXCEPT ![user_id] = g.yt]
    ELSE ytmusic_instances

\* variant: the pop is forgotten
InvalidateKeepsHandle(user_id) == ytmusic_instances

\* the names of a user's files in DATA_PATH: oauth_{user_id}.json (lines 85-87)
\* and client_creds_{user_id}.json (lines 98, 279, 297, 372)
OauthFile(user_id) == << "oauth_" >> \o user_id \o << ".json" >>
ClientCredsFile(user_id) == << "client_creds_" >> \o user_id \o << ".json" >>

\* variant: every user's handle is dropped
InvalidateYtmusicAll(user_id) == [u \in UserIds |-> NoHandle]

\* _invalidate_ytmusic(user_id): _ytmusic_instances.pop(user_id, None)
InvalidateYtmusic(user_id) == [ytmusic_instances EXCEPT ![user_id] = NoHandle]

\* history: the first lookup of user_id's handle after a credential change.
\* fromDisk: the handle returned holds what the files on disk hold now
FirstGetAfter(user_id, g) ==
    IF firstGet[user_id].k = "await"
    THEN [firstGet EXCEPT ![user_id] =
            [k |-> "got", by |-> firstGet[user_id].by,
             had |-> firstGet[user_id].had, status |-> g.status,
             built |-> g.built,
             fromDisk |-> /\ g.status = 200
                          /\ oauthFile[user_id] = JsonText(g.yt.oauth)
                          /\ LoadClientCreds(user_id) = [ok |-> TRUE, creds |-> g.yt.creds]]]
    ELSE firstGet

\* the variables of a step that looks a handle up
GetEffects(user_id, g) ==
    /\ ytmusic_instances' = InstancesAfterGet(user_id, g)
    /\ firstGet' = FirstGetAfter(user_id, g)

\* a handler's response is observed, or not
Observe(response) == event' = response
Silent == event' = event

trackVars == <<fs, workers, album, tidal_api, api_lock, api>>
channelVars == <<oauthFile, credsFile, ytmusic_instances, stream_cache,
                 now, slots, firstGet, relay>>

(***************************************************************************)
(* Texts.  A text the code lower-cases or searches for a substring is a     *)
(* sequence of characters, each a one-character string.                    *)
(***************************************************************************)
\* the characters of the texts written in this module: the literals of the
\* source and the texts the platform libraries are made to give
Texts ==
       "authorization_pending" :>
           << "a", "u", "t", "h", "o", "r", "i", "z", "a", "t", "i", "o",
           "n", "_", "p", "e", "n", "d", "i", "n", "g" >>
    @@ "invalid_grant" :>
           << "i", "n", "v", "a", "l", "i", "d", "_", "g", "r", "a", "n",
           "t" >>
    @@ "expired_token" :>
           << "e", "x", "p", "i", "r", "e", "d", "_", "t", "o", "k", "e",
           "n" >>
    @@ "access_denied" :>
           << "a", "c", "c", "e", "s", "s", "_", "d", "e", "n", "i", "e",
           "d" >>
    @@ "invalid_client" :>
           << "i", "n", "v", "a", "l", "i", "d", "_", "c", "l", "i", "e",
           "n", "t" >>
    @@ "slow_down" :>
           << "s", "l", "o", "w", "_", "d", "o", "w", "n" >>
    @@ "opus" :>
           << "o", "p", "u", "s" >>
    @@ "mp4a" :>
           << "m", "p", "4", "a" >>
    @@ "aac" :>
           << "a", "a", "c" >>
    @@ "song" :>
           << "s", "o", "n", "g" >>
    @@ "album" :>
           << "a", "l", "b", "u", "m" >>
    @@ "artist" :>
           << "a", "r", "t", "i", "s", "t" >>
    @@ "video" :>
           << "v", "i", "d", "e", "o" >>
    @@ "connection reset" :>
           << "c", "o", "n", "n", "e", "c", "t", "i", "o", "n", " ", "r",
           "e", "s", "e", "t" >>
    @@ "Bad Request INVALID_GRANT" :>
           << "B", "a", "d", " ", "R", "e", "q", "u", "e", "s", "t", " ",
           "I", "N", "V", "A", "L", "I", "D", "_", "G", "R", "A", "N",
           "T" >>
    @@ "Slow_Down" :>
           << "S", "l", "o", "w", "_", "D", "o", "w", "n" >>
    @@ "access_denied after invalid_grant" :>
           << "a", "c", "c", "e", "s", "s", "_", "d", "e", "n", "i", "e",
           "d", " ", "a", "f", "t", "e", "r", " ", "i", "n", "v", "a",
           "l", "i", "d", "_", "g", "r", "a", "n", "t" >>
    @@ "expired_token Authorization_Pending" :>
           << "e", "x", "p", "i", "r", "e", "d", "_", "t", "o", "k", "e",
           "n", " ", "A", "u", "t", "h", "o", "r", "i", "z", "a", "t",
           "i", "o", "n", "_", "P", "e", "n", "d", "i", "n", "g" >>
    @@ "401 (Invalid_Client)" :>
           << "4", "0", "1", " ", "(", "I", "n", "v", "a", "l", "i", "d",
           "_", "C", "l", "i", "e", "n", "t", ")" >>
    @@ "mp4a.40.2" :>
           << "m", "p", "4", "a", ".", "4", "0", ".", "2" >>
    @@ "flac" :>
           << "f", "l", "a", "c" >>
    @@ "playlist" :>
           << "p", "l", "a", "y", "l", "i", "s", "t" >>
    @@ "Songs" :>
           << "S", "o", "n", "g", "s" >>
    @@ "Albums" :>
           << "A", "l", "b", "u", "m", "s" >>
    @@ "Artists" :>
           << "A", "r", "t", "i", "s", "t", "s" >>
    @@ "Videos" :>
           << "V", "i", "d", "e", "o", "s" >>
    @@ "Community playlists" :>
           << "C", "o", "m", "m", "u", "n", "i", "t", "y", " ", "p", "l",
           "a", "y", "l", "i", "s", "t", "s" >>
    @@ "Video" :>
           << "V", "i", "d", "e", "o" >>
    @@ "Song" :>
           << "S", "o", "n", "g" >>
Text(s) == Texts[s]

\* str.lower() of one character (the texts here are ASCII): the capital
\* letters and their small ones, every other character being left as it is
LowerCase ==
    "A" :> "a" @@ "B" :> "b" @@ "C" :> "c" @@ "D" :> "d" @@ "E" :> "e"
    @@ "F" :> "f" @@ "G" :> "g" @@ "H" :> "h" @@ "I" :> "i" @@ "J" :> "j"
    @@ "K" :> "k" @@ "L" :> "l" @@ "M" :> "m" @@ "N" :> "n" @@ "O" :> "o"
    @@ "P" :> "p" @@ "Q" :> "q" @@ "R" :> "r" @@ "S" :> "s" @@ "T" :> "t"
    @@ "U" :> "u" @@ "V" :> "v" @@ "W" :> "w" @@ "X" :> "x" @@ "Y" :> "y"
    @@ "Z" :> "z"
LowerChar(c) == IF c \in DOMAIN LowerCase THEN LowerCase[c] ELSE c
\* str.lower()
Lower(text) == [i \in DOMAIN text |-> LowerChar(text[i])]
\* key in text: key is a substring of text
Contains(text, key) ==
    \E i \in 0..(Len(text) - Len(key)) : \A j \in DOMAIN key : text[i + j] = key[j]

(***************************************************************************)
(* Credential routes: /auth/status, /auth/restore, /auth/clear, and the    *)
(* catalog routes.  A handler's response is an operator of its inputs and  *)
(* the state it starts in; the action is what it does to the state.        *)
(***************************************************************************)
\* request bodies of /auth/restore: oauth_json is absent (or null), "", a
\* JSON value that is not a string and is falsy in Python (0, false, [], {}),
\* one that is not a string and is truthy (123, true, [1], an object with
\* keys), a string that is not JSON, or a JSON string; client_id and
\* client_secret are "" when absent or empty
Missing   == [k |-> "missing"]
EmptyStr  == [k |-> "empty"]
FalsyNonString == [k |-> "falsy"]
NonString == [k |-> "nonstring"]
OauthJsonInputs == { Missing, EmptyStr, FalsyNonString, NonString, NotJson,
                     JsonText("tokA"), JsonText("tokB"), JsonText(JunkDoc) }
ClientIds     == { "", "cid1" }
ClientSecrets == { "", "sec1" }
RestoreBodies == { [oauth_json |-> o, client_id |-> i, client_secret |-> x] :
                   o \in OauthJsonInputs, i \in ClientIds, x \in ClientSecrets }

\* Python truthiness of body.get("oauth_json")
Truthy(x) == x.k \notin { "missing", "empty", "falsy" }

\* @app.get("/auth/status")
AuthStatusResponse(user_id) ==
    [op |-> "status", user |-> user_id, http |-> 200,
     authenticated |-> /\ oauthFile[user_id] # Absent
                       /\ GetYtmusic(user_id).status = 200]
AuthStatus(user_id) ==
    /\ IF oauthFile[user_id] = Absent
       THEN UNCHANGED <<ytmusic_instances, firstGet>>
       ELSE GetEffects(user_id, GetYtmusic(user_id))
    /\ UNCHANGED <<oauthFile, credsFile, stream_cache, now, slots, relay>>
    /\ UNCHANGED trackVars

\* /search, /album, /artist, /song, /library/*: yt = _get_ytmusic(user_id), then
\* one platform call that returns or raises (500)
CatalogResponse(user_id, platform_ok) ==
    LET g == GetYtmusic(user_id) IN
    [op |-> "catalog", user |-> user_id,
     http |-> IF g.status # 200 THEN g.status ELSE IF platform_ok THEN 200 ELSE 500,
     detail |-> IF g.status # 200 THEN g.detail ELSE ""]
CatalogCall(user_id) ==
    /\ GetEffects(user_id, GetYtmusic(user_id))
    /\ UNCHANGED <<oauthFile, credsFile, stream_cache, now, slots, relay>>
    /\ UNCHANGED trackVars

\* a search result of the platform library, as far as /search reads it:
\* resultType and category (texts, << >> when absent), the id (videoId or browseId), the
\* names of the dicts of "artists" (<< >> when absent or empty), and the name
\* of an artist entry
SearchResult(result_type, category, id, artists, name) ==
    [resultType |-> result_type, category |-> category, id |-> id,
     artists |-> artists, name |-> name]

\* line 416: r.get("resultType") or r.get("category", "").lower()
ResultType(r) ==
    IF r.resultType # << >> THEN r.resultType ELSE Lower(r.category)

\* variant: the last artist is the primary one
PrimaryArtistLast(artists) ==
    IF artists # << >> THEN artists[Len(artists)] ELSE "Unknown"

\* artists[0].get("name") if artists else "Unknown"
PrimaryArtist(artists) ==
    IF artists # << >> THEN artists[1] ELSE "Unknown"

\* lines 418-465: the item appended for one result, << >> when none is
SearchItem(r) ==
    LET result_type == ResultType(r)
        Titled(type) == << [type |-> type, id |-> r.id,
                            artist |-> PrimaryArtist(r.artists),
                            artists |-> r.artists] >>
    IN
    IF result_type = Text("song") THEN Titled("song")
    ELSE IF result_type = Text("album") THEN Titled("album")
    ELSE IF result_type = Text("artist")
    THEN << [type |-> "artist", id |-> r.id, name |-> r.name] >>
    ELSE IF result_type = Text("video") THEN Titled("video")
    ELSE << >>

\* lines 414-465: items, in the order of results
RECURSIVE SearchItems(_)
SearchItems(results) ==
    IF results = << >> THEN << >>
    ELSE SearchItem(Head(results)) \o SearchItems(Tail(results))

\* @app.post("/search"): platform is what yt.search returns, or that it raises
SearchResponse(user_id, platform) ==
    LET g == GetYtmusic(user_id) IN
    IF g.status # 200
    THEN [op |-> "search", user |-> user_id, http |-> g.status, detail |-> g.detail]
    ELSE IF platform.k = "raise"
    THEN [op |-> "search", user |-> user_id, http |-> 500]
    ELSE LET items == SearchItems(platform.results) IN
         [op |-> "search", user |-> user_id, http |-> 200,
          results |-> items, total |-> Len(items)]

\* history: user_id's credentials were changed by op
CredentialsChanged(user_id, op) ==
    firstGet' = [firstGet EXCEPT ![user_id] =
                   [k |-> "await", by |-> op,
                    had |-> ytmusic_instances[user_id] # NoHandle]]

\* @app.post("/auth/restore"): the status code.  "not oauth_json" answers 400
\* for every falsy value, string or not; json.loads of a truthy value that is
\* not a string raises TypeError, which the handler does not catch
RestoreStatus(body) ==
    IF ~Truthy(body.oauth_json) THEN 400
    ELSE IF body.oauth_json = NonString THEN 500
    ELSE IF ~JsonLoads(body.oauth_json).ok THEN 400
    ELSE 200
AuthRestoreResponse(user_id, body) ==
    [op |-> "restore", user |-> user_id, http |-> RestoreStatus(body)]

\* variant: a restore without client credentials removes the stored ones
AuthRestoreDropsClientCreds(user_id, body) ==
    /\ IF RestoreStatus(body) # 200
       THEN UNCHANGED <<oauthFile, credsFile, ytmusic_instances, firstGet>>
       ELSE /\ oauthFile' = [oauthFile EXCEPT ![user_id] = body.oauth_json]
            /\ credsFile' =
                 IF body.client_id # "" /\ body.client_secret # ""
                 THEN [credsFile EXCEPT ![user_id] =
                         JsonText(CredsDoc(body.client_id, body.client_secret))]
                 ELSE [credsFile EXCEPT ![user_id] = Absent]
            /\ ytmusic_instances' = InvalidateYtmusic(user_id)
            /\ CredentialsChanged(user_id, "restore")
    /\ UNCHANGED <<stream_cache, now, slots, relay>>
    /\ UNCHANGED trackVars

\* @app.post("/auth/restore"), lines 254-287
AuthRestore(user_id, body) ==
    /\ IF RestoreStatus(body) # 200
       THEN UNCHANGED <<oauthFile, credsFile, ytmusic_instances, firstGet>>
       ELSE /\ oauthFile' = [oauthFile EXCEPT ![user_id] = body.oauth_json]
            /\ credsFile' =
                 IF body.client_id # "" /\ body.client_secret # ""
                 THEN [credsFile EXCEPT ![user_id] =
                         JsonText(CredsDoc(body.client_id, body.client_secret))]
                 ELSE credsFile
            /\ ytmusic_instances' = InvalidateYtmusic(user_id)
            /\ CredentialsChanged(user_id, "restore")
    /\ UNCHANGED <<stream_cache, now, slots, relay>>
    /\ UNCHANGED trackVars

\* variant: the handle is popped, the credential file is left on disk
AuthClearKeepsOauthFile(user_id) ==
    /\ ytmusic_instances' = InvalidateYtmusic(user_id)
    /\ credsFile' = [credsFile EXCEPT ![user_id] = Absent]
    /\ CredentialsChanged(user_id, "clear")
    /\ UNCHANGED <<oauthFile, stream_cache, now, slots, relay>>
    /\ UNCHANGED trackVars

\* variant: the files are removed, the handle is kept
AuthClearKeepsHandle(user_id) ==
    /\ oauthFile' = [oauthFile EXCEPT ![user_id] = Absent]
    /\ credsFile' = [credsFile EXCEPT ![user_id] = Absent]
    /\ CredentialsChanged(user_id, "clear")
    /\ UNCHANGED <<ytmusic_instances, stream_cache, now, slots, relay>>
    /\ UNCHANGED trackVars

\* @app.post("/auth/clear")
AuthClearResponse(user_id) == [op |-> "clear", user |-> user_id, http |-> 200]
AuthClear(user_id) ==
    /\ ytmusic_instances' = InvalidateYtmusic(user_id)
    /\ oauthFile' = [oauthFile EXCEPT ![user_id] = Absent]
    /\ credsFile' = [credsFile EXCEPT ![user_id] = Absent]
    /\ CredentialsChanged(user_id, "clear")
    /\ UNCHANGED <<stream_cache, now, slots, relay>>
    /\ UNCHANGED trackVars

(***************************************************************************)
(* /auth/device-code/poll                                                  *)
(***************************************************************************)
\* ERROR_MESSAGES, in the order the dict lists its keys
ErrorKeys == << "invalid_grant", "expired_token", "access_denied", "invalid_client" >>

\* variant: the messages of invalid_grant and expired_token are exchanged
ERROR_MESSAGES_Swapped(error_key) ==
    CASE error_key = "invalid_grant" ->
           "The sign-in code has expired. Please start over."
      [] error_key = "expired_token" ->
           "The sign-in code has expired or was already used. Please start over."
      [] error_key = "access_denied" ->
           "Access was denied. Please try again and click 'Allow' on the Google page."
      [] error_key = "invalid_client" ->
           "OAuth client credentials are invalid. Please ask your admin to check the Client ID and Secret."

ERROR_MESSAGES(error_key) ==
    CASE error_key = "invalid_grant" ->
           "The sign-in code has expired or was already used. Please start over."
      [] error_key = "expired_token" ->
           "The sign-in code has expired. Please start over."
      [] error_key = "access_denied" ->
           "Access was denied. Please try again and click 'Allow' on the Google page."
      [] error_key = "invalid_client" ->
           "OAuth client credentials are invalid. Please ask your admin to check the Client ID and Secret."

IsErrorKey(error) == \E i \in DOMAIN ErrorKeys : ErrorKeys[i] = error

\* lines 357-364: token_from_code returned a dict with an "error" field
PollReturned(error) ==
    IF error \in { "authorization_pending", "slow_down" }
    THEN [http |-> 200, status |-> "pending", error |-> error]
    ELSE [http |-> 200, status |-> "error",
          error |-> IF IsErrorKey(error) THEN ERROR_MESSAGES(error)
                    ELSE "Authorization failed (" \o error \o "). Please try again."]

\* variant: a raised slow_down is pending, as a returned one is
PollRaisedSlowDownPending(text) ==
    LET error_str == Lower(text) IN
    IF Contains(error_str, Text("authorization_pending"))
    THEN [http |-> 200, status |-> "pending", error |-> "authorization_pending"]
    ELSE IF Contains(error_str, Text("slow_down"))
    THEN [http |-> 200, status |-> "pending", error |-> "slow_down"]
    ELSE IF \E i \in DOMAIN ErrorKeys : Contains(error_str, Text(ErrorKeys[i]))
    THEN LET first == CHOOSE i \in DOMAIN ErrorKeys :
                        /\ Contains(error_str, Text(ErrorKeys[i]))
                        /\ \A j \in 1..(i - 1) :
                              ~Contains(error_str, Text(ErrorKeys[j]))
         IN [http |-> 200, status |-> "error", error |-> ERROR_MESSAGES(ErrorKeys[first])]
    ELSE [http |-> 500, status |-> "failed"]

\* lines 385-401: the call raised e, text = str(e)
PollRaised(text) ==
    LET error_str == Lower(text) IN
    IF Contains(error_str, Text("authorization_pending"))
    THEN [http |-> 200, status |-> "pending", error |-> "authorization_pending"]
    ELSE IF \E i \in DOMAIN ErrorKeys : Contains(error_str, Text(ErrorKeys[i]))
    THEN LET first == CHOOSE i \in DOMAIN ErrorKeys :
                        /\ Contains(error_str, Text(ErrorKeys[i]))
                        /\ \A j \in 1..(i - 1) :
                              ~Contains(error_str, Text(ErrorKeys[j]))
         IN [http |-> 200, status |-> "error", error |-> ERROR_MESSAGES(ErrorKeys[first])]
    ELSE [http |-> 500, status |-> "failed"]

\* what oauth_creds.token_from_code(device_code) does: returns a token, returns
\* a dict with an "error" field, or raises
ReturnedErrors == { "authorization_pending", "slow_down", "invalid_grant",
                    "expired_token", "access_denied", "invalid_client",
                    "server_error" }
RaisedTexts == { Text("connection reset"),
                 Text("authorization_pending"),
                 Text("Bad Request INVALID_GRANT"),
                 Text("Slow_Down"),
                 Text("access_denied after invalid_grant"),
                 Text("expired_token Authorization_Pending"),
                 Text("401 (Invalid_Client)") }
PollReturns == { [k |-> "token", token |-> t] : t \in TokenDocs }
               \cup { [k |-> "error", error |-> e] : e \in ReturnedErrors }
               \cup { [k |-> "raise", text |-> x] : x \in RaisedTexts }
PollRequests == { [client_id |-> "cid1", client_secret |-> "sec1"],
                  [client_id |-> "cid2", client_secret |-> ""] }

\* @app.post("/auth/device-code/poll"): the response
PollOutcome(ret) ==
    IF ret.k = "token"
    THEN [http |-> 200, status |-> "success", oauth_json |-> JsonText(ret.token)]
    ELSE IF ret.k = "error" THEN PollReturned(ret.error)
    ELSE PollRaised(ret.text)
\* variant: the client credentials are saved before the error check
AuthDeviceCodePollSavesClientFirst(user_id, req, ret) ==
    /\ credsFile' = [credsFile EXCEPT ![user_id] =
                       JsonText(CredsDoc(req.client_id, req.client_secret))]
    /\ IF ret.k = "token"
       THEN /\ oauthFile' = [oauthFile EXCEPT ![user_id] = JsonText(ret.token)]
            /\ ytmusic_instances' = InvalidateYtmusic(user_id)
            /\ CredentialsChanged(user_id, "poll")
       ELSE UNCHANGED <<oauthFile, ytmusic_instances, firstGet>>
    /\ UNCHANGED <<stream_cache, now, slots, relay>>
    /\ UNCHANGED trackVars

AuthDeviceCodePollResponse(user_id, req, ret) ==
    [op |-> "poll", user |-> user_id, ret |-> ret, out |-> PollOutcome(ret)]
AuthDeviceCodePoll(user_id, req, ret) ==
    /\ IF ret.k = "token"
       THEN /\ oauthFile' = [oauthFile EXCEPT ![user_id] = JsonText(ret.token)]
            /\ credsFile' = [credsFile EXCEPT ![user_id] =
                               JsonText(CredsDoc(req.client_id, req.client_secret))]
            /\ ytmusic_instances' = InvalidateYtmusic(user_id)
            /\ CredentialsChanged(user_id, "poll")
       ELSE UNCHANGED <<oauthFile, credsFile, ytmusic_instances, firstGet>>
    /\ UNCHANGED <<stream_cache, now, slots, relay>>
    /\ UNCHANGED trackVars

(***************************************************************************)
(* _get_stream_url_sync, run on a worker thread by /stream and /proxy      *)
(***************************************************************************)
\* variant: an unknown quality falls back to the selector of LOW
FormatMapFallsBackToLow(quality) ==
    CASE quality = "LOW"      -> "ba[abr<=64]/worstaudio/ba"
      [] quality = "MEDIUM"   -> "ba[abr<=128]/ba[abr<=192]/ba"
      [] quality = "HIGH"     -> "ba[abr<=256]/ba"
      [] quality = "LOSSLESS" -> "ba/bestaudio"
      [] OTHER                -> "ba[abr<=64]/worstaudio/ba"

\* format_map.get(quality, format_map["HIGH"])
FormatMap(quality) ==
    CASE quality = "LOW"      -> "ba[abr<=64]/worstaudio/ba"
      [] quality = "MEDIUM"   -> "ba[abr<=128]/ba[abr<=192]/ba"
      [] quality = "HIGH"     -> "ba[abr<=256]/ba"
      [] quality = "LOSSLESS" -> "ba/bestaudio"
      [] OTHER                -> "ba[abr<=256]/ba"

\* variant: any cached entry is a hit
CacheHitIgnoresExpiry(cached, t) == cached # NoEntry

\* line 148: cached and cached.get("expires_at", 0) > time.time()
CacheHit(cached, t) == cached # NoEntry /\ cached.expires_at > t

\* what ydl.extract_info returns: nothing, an info dict (url "" when it has no
\* "url"; a format's vcodec "null" when absent, abr 0 when absent; acodec a text,
\* << >> when absent), or it raises
Fmt(a, v, r, u) == [acodec |-> a, vcodec |-> v, abr |-> r, url |-> u]
Info(u, c, f) == [k |-> "info", url |-> u, acodec |-> c, formats |-> f]
Infos == { [k |-> "none"],
           [k |-> "raise"],
           Info("cdn", Text("mp4a.40.2"), << >>),
           Info("cdn2", Text("opus"), << >>),
           Info("", << >>,
                << Fmt("avc1", "avc1", 0, "fv"), Fmt("opus", "none", 128, "f128"),
                   Fmt("mp4a", "null", 256, "f256"), Fmt("opus", "none", 256, "g256") >>),
           Info("", << >>,
                << Fmt("none", "avc1", 0, "fv"), Fmt("mp4a", "avc1", 128, "fav") >>),
           Info("", Text("flac"),
                << Fmt("opus", "none", 64, "f64"), Fmt("opus", "none", 128, "") >>) }

\* lines 181-184: the audio-only formats, in order
RECURSIVE AudioFormats(_)
AudioFormats(formats) ==
    IF formats = << >> THEN << >>
    ELSE LET f == Head(formats) IN
         (IF f.acodec # "none" /\ f.vcodec \in { "none", "null" } THEN << f >> ELSE << >>)
         \o AudioFormats(Tail(formats))

\* lines 177-190: the stream URL, "" when none is found
StreamUrl(info) ==
    IF info.url # "" THEN info.url
    ELSE LET audio_formats == AudioFormats(info.formats) IN
         IF audio_formats = << >> THEN ""
         ELSE \* sort by abr, descending and stable; take the first
              LET best == CHOOSE i \in DOMAIN audio_formats :
                     /\ \A j \in DOMAIN audio_formats :
                          audio_formats[j].abr <= audio_formats[i].abr
                     /\ \A j \in 1..(i - 1) :
                          audio_formats[j].abr < audio_formats[i].abr
              IN audio_formats[best].url

\* variant: the platform's own lifetime of a URL is used
ExpiresAtSixHours(t) == t + 6 * 60 * 60

\* line 198: time.time() + STREAM_CACHE_TTL
ExpiresAt(t) == t + STREAM_CACHE_TTL

RangeNone == "-"
NoRelay == [pc |-> "idle"]

\* the handler of /stream or /proxy up to asyncio.to_thread: _get_ytmusic
\* (401 ends the request), then the worker thread is started
StreamBeginResponse(kind, user_id) ==
    [op |-> kind, user |-> user_id, http |-> GetYtmusic(user_id).status]

\* variant: the worker thread is started whatever _get_ytmusic answered
StreamBeginSkipsAuth(s, kind, user_id, video_id, quality, range) ==
    /\ slots[s] = IdleSlot
    /\ relay[s] = NoRelay
    /\ LET g == GetYtmusic(user_id) IN
       /\ GetEffects(user_id, g)
       /\ slots' = [slots EXCEPT ![s] =
                       [pc |-> "check", kind |-> kind, user |-> user_id,
                        video |-> video_id, quality |-> quality,
                        range |-> range, result |-> NoEntry,
                        checked_at |-> 0]]
    /\ UNCHANGED <<oauthFile, credsFile, stream_cache, now, relay>>
    /\ UNCHANGED trackVars

\* lines 586-592 and 604-619
StreamBegin(s, kind, user_id, video_id, quality, range) ==
    /\ slots[s] = IdleSlot
    /\ relay[s] = NoRelay
    /\ LET g == GetYtmusic(user_id) IN
       /\ GetEffects(user_id, g)
       /\ slots' = IF g.status = 200
                   THEN [slots EXCEPT ![s] =
                           [pc |-> "check", kind |-> kind, user |-> user_id,
                            video |-> video_id, quality |-> quality,
                            range |-> range, result |-> NoEntry,
                            checked_at |-> 0]]
                   ELSE slots
    /\ UNCHANGED <<oauthFile, credsFile, stream_cache, now, relay>>
    /\ UNCHANGED trackVars

\* variant: an entry resolved under another quality is no hit
ThreadCheckMatchesQuality(s) ==
    /\ slots[s].pc = "check"
    /\ LET cached == stream_cache[CacheKey(slots[s].user, slots[s].video)] IN
       slots' = [slots EXCEPT ![s] =
                   IF CacheHit(cached, now) /\ cached.format = FormatMap(slots[s].quality)
                   THEN [@ EXCEPT !.pc = "ret", !.result = cached, !.checked_at = now]
                   ELSE [@ EXCEPT !.pc = "extract", !.checked_at = now]]
    /\ UNCHANGED <<oauthFile, credsFile, ytmusic_instances, stream_cache,
                   now, firstGet, relay>>
    /\ UNCHANGED trackVars

\* lines 144-150, on the worker thread: the cache lookup; checked_at is the
\* time.time() of line 148
ThreadCheck(s) ==
    /\ slots[s].pc = "check"
    /\ LET cached == stream_cache[CacheKey(slots[s].user, slots[s].video)] IN
       slots' = [slots EXCEPT ![s] =
                   IF CacheHit(cached, now)
                   THEN [@ EXCEPT !.pc = "ret", !.result = cached, !.checked_at = now]
                   ELSE [@ EXCEPT !.pc = "extract", !.checked_at = now]]
    /\ UNCHANGED <<oauthFile, credsFile, ytmusic_instances, stream_cache,
                   now, firstGet, relay>>
    /\ UNCHANGED trackVars

\* variant: a failed resolution removes the entry it could not replace
ThreadExtractDropsEntry(s, info) ==
    /\ slots[s].pc = "extract"
    /\ LET cache_key == CacheKey(slots[s].user, slots[s].video)
           stream_url == IF info.k = "info" THEN StreamUrl(info) ELSE ""
           result == [k |-> "entry", url |-> stream_url, video |-> slots[s].video,
                      format |-> FormatMap(slots[s].quality),
                      acodec |-> IF info.k = "info" THEN info.acodec ELSE << >>,
                      expires_at |-> ExpiresAt(now)] IN
       IF stream_url # ""
       THEN /\ stream_cache' = [stream_cache EXCEPT ![cache_key] = result]
            /\ slots' = [slots EXCEPT ![s] = [@ EXCEPT !.pc = "ret", !.result = result]]
       ELSE /\ stream_cache' = [stream_cache EXCEPT ![cache_key] = NoEntry]
            /\ slots' = [slots EXCEPT ![s] = [@ EXCEPT !.pc = "fail"]]
    /\ UNCHANGED <<oauthFile, credsFile, ytmusic_instances, now, firstGet, relay>>
    /\ UNCHANGED trackVars

\* variant: the result is stored only where no unexpired entry is, and the
\* entry in the cache is what the caller gets
ThreadExtractKeepsFirst(s, info) ==
    /\ slots[s].pc = "extract"
    /\ LET cache_key == CacheKey(slots[s].user, slots[s].video)
           stream_url == IF info.k = "info" THEN StreamUrl(info) ELSE ""
           result == [k |-> "entry", url |-> stream_url, video |-> slots[s].video,
                      format |-> FormatMap(slots[s].quality),
                      acodec |-> IF info.k = "info" THEN info.acodec ELSE << >>,
                      expires_at |-> ExpiresAt(now)]
           kept == IF CacheHit(stream_cache[cache_key], now)
                   THEN stream_cache[cache_key] ELSE result IN
       IF stream_url # ""
       THEN /\ stream_cache' = [stream_cache EXCEPT ![cache_key] = kept]
            /\ slots' = [slots EXCEPT ![s] = [@ EXCEPT !.pc = "ret", !.result = kept]]
       ELSE /\ stream_cache' = stream_cache
            /\ slots' = [slots EXCEPT ![s] = [@ EXCEPT !.pc = "fail"]]
    /\ UNCHANGED <<oauthFile, credsFile, ytmusic_instances, now, firstGet, relay>>
    /\ UNCHANGED trackVars

\* lines 152-209, on the worker thread: the extractor is invoked with the
\* format selector and, on success, the result is stored
ThreadExtract(s, info) ==
    /\ slots[s].pc = "extract"
    /\ LET cache_key == CacheKey(slots[s].user, slots[s].video)
           stream_url == IF info.k = "info" THEN StreamUrl(info) ELSE ""
           \* video and format: the request the extractor was given, which the
           \* metadata of the result (title, artist, duration, abr) answers
           result == [k |-> "entry", url |-> stream_url, video |-> slots[s].video,
                      format |-> FormatMap(slots[s].quality),
                      acodec |-> IF info.k = "info" THEN info.acodec ELSE << >>,
                      expires_at |-> ExpiresAt(now)] IN
       IF stream_url # ""
       THEN /\ stream_cache' = [stream_cache EXCEPT ![cache_key] = result]
            /\ slots' = [slots EXCEPT ![s] = [@ EXCEPT !.pc = "ret", !.result = result]]
       ELSE /\ stream_cache' = stream_cache
            /\ slots' = [slots EXCEPT ![s] = [@ EXCEPT !.pc = "fail"]]
    /\ UNCHANGED <<oauthFile, credsFile, ytmusic_instances, now, firstGet, relay>>
    /\ UNCHANGED trackVars

\* /stream after the thread returned (lines 593-601), or the 502 the thread
\* raised (/stream and /proxy)
StreamRespondResponse(s) ==
    IF slots[s].pc = "ret"
    THEN [op |-> "stream", user |-> slots[s].user, video |-> slots[s].video,
          http |-> 200, url |-> slots[s].result.url,
          expires_at |-> slots[s].result.expires_at]
    ELSE [op |-> slots[s].kind, user |-> slots[s].user, video |-> slots[s].video,
          http |-> 502]
StreamRespond(s) ==
    /\ \/ slots[s].pc = "ret" /\ slots[s].kind = "stream"
       \/ slots[s].pc = "fail"
    /\ slots' = [slots EXCEPT ![s] = IdleSlot]
    /\ UNCHANGED <<oauthFile, credsFile, ytmusic_instances, stream_cache,
                   now, firstGet, relay>>
    /\ UNCHANGED trackVars

(***************************************************************************)
(* /proxy: the relay of the upstream body                                  *)
(***************************************************************************)
\* "opus" in acodec, "mp4a" in acodec, "aac" in acodec
ContentType(acodec) ==
    IF Contains(acodec, Text("opus")) THEN "audio/webm"
    ELSE IF Contains(acodec, Text("mp4a")) \/ Contains(acodec, Text("aac"))
    THEN "audio/mp4"
    ELSE "audio/mp4"

\* the inbound Range header: absent, empty, or a byte range
Ranges == { RangeNone, "", "bytes=100-199", "bytes=0-" }
NoHeader == "-"

\* what the CDN answers: status, Content-Range and Content-Length (NoHeader when
\* absent) and the body, a sequence of chunks of up to 65536 bytes
Upstream(st, cr, cl, body) ==
    [status |-> st, content_range |-> cr, content_length |-> cl, chunks |-> body]
Upstreams == { Upstream(206, "bytes 100-199/1000", "100", << "x1", "x2" >>),
               Upstream(206, "bytes 0-999/1000", NoHeader, << "x1", "x2", "x3" >>),
               Upstream(200, NoHeader, "3", << "x1" >>),
               Upstream(416, "bytes */1000", "0", << >>) }

\* lines 631-634: the headers of the upstream request
UpstreamRequestHeaders(range) ==
    IF range # RangeNone THEN [has_range |-> TRUE, Range |-> range]
    ELSE [has_range |-> FALSE]
\* headers.get("Range") is truthy
HasRange(headers) == headers.has_range /\ headers.Range # ""

\* lines 652-659: the response headers of the range branch
ResponseHeaders(content_type, upstream) ==
    [content_type |-> content_type, accept_ranges |-> "bytes",
     content_range |-> upstream.content_range,
     content_length |-> upstream.content_length,
     cache_control |-> NoHeader]

\* proxy_stream after the worker thread returned (lines 620-680), up to the
\* return of the StreamingResponse.  In the range branch (headers.get("Range")
\* is truthy) the upstream response is opened by a client that the handler
\* closes when it returns, before the body is iterated; `buffered` is the number
\* of chunks the closed connection can still hand out.  Otherwise the client is
\* opened by the body generator itself.
ProxyRespond(s, upstream, buffered) ==
    /\ slots[s].pc = "ret"
    /\ slots[s].kind = "proxy"
    /\ relay[s] = NoRelay
    /\ buffered \in 0..Len(upstream.chunks)
    /\ LET range == slots[s].range
           content_type == ContentType(slots[s].result.acodec)
           headers == UpstreamRequestHeaders(range) IN
       IF HasRange(headers)
       THEN relay' = [relay EXCEPT ![s] =
                [pc |-> "relaying", branch |-> "range", forwarded |-> headers,
                 url |-> slots[s].result.url, upstream |-> upstream,
                 status |-> upstream.status,
                 headers |-> ResponseHeaders(content_type, upstream),
                 client_open |-> FALSE, upstream_open |-> TRUE,
                 buffered |-> buffered, closed_before_chunk |-> FALSE,
                 body |-> << >>]]
       ELSE /\ buffered = Len(upstream.chunks)
            /\ relay' = [relay EXCEPT ![s] =
                [pc |-> "relaying", branch |-> "plain", forwarded |-> headers,
                 url |-> slots[s].result.url, upstream |-> upstream,
                 status |-> 200,
                 headers |-> [content_type |-> content_type, accept_ranges |-> "bytes",
                              content_range |-> NoHeader, content_length |-> NoHeader,
                              cache_control |-> "no-cache"],
                 client_open |-> TRUE, upstream_open |-> TRUE,
                 buffered |-> buffered, closed_before_chunk |-> FALSE,
                 body |-> << >>]]
    /\ slots' = [slots EXCEPT ![s] = [@ EXCEPT !.pc = "relay"]]
    /\ UNCHANGED <<oauthFile, credsFile, ytmusic_instances, stream_cache,
                   now, firstGet>>
    /\ UNCHANGED trackVars

\* one turn of the body generator (range_stream, lines 661-664, or
\* stream_audio, lines 636-643): the next chunk is relayed, or the read fails
\* because the connection is gone, or the body is complete and the upstream
\* response (and in stream_audio the client) is closed
RelayChunk(s) ==
    /\ relay[s].pc = "relaying"
    /\ LET r == relay[s]
           n == Len(r.body) IN
       relay' = [relay EXCEPT ![s] =
           IF n = Len(r.upstream.chunks)
           THEN [r EXCEPT !.pc = "done", !.upstream_open = FALSE, !.client_open = FALSE]
           ELSE IF r.client_open \/ n < r.buffered
           THEN [r EXCEPT !.body = Append(r.body, r.upstream.chunks[n + 1]),
                          !.closed_before_chunk = @ \/ ~r.client_open]
           ELSE [r EXCEPT !.pc = "aborted"]]
    /\ UNCHANGED <<oauthFile, credsFile, ytmusic_instances, stream_cache,
                   now, slots, firstGet>>
    /\ UNCHANGED trackVars

\* the response of /proxy as its caller saw it
ProxyResponse(s) ==
    [op |-> "proxy", user |-> slots[s].user, video |-> slots[s].video,
     http |-> relay[s].status, headers |-> relay[s].headers,
     body |-> relay[s].body, complete |-> relay[s].pc = "done"]

\* the caller has the whole response, or the torn-down stream
ProxyEnd(s) ==
    /\ relay[s].pc \in { "done", "aborted" }
    /\ relay' = [relay EXCEPT ![s] = NoRelay]
    /\ slots' = [slots EXCEPT ![s] = IdleSlot]
    /\ UNCHANGED <<oauthFile, credsFile, ytmusic_instances, stream_cache,
                   now, firstGet>>
    /\ UNCHANGED trackVars

\* variant: an entry expiring at this very second is kept
CleanStreamCacheKeepsBoundary(cache, t) ==
    [key \in DOMAIN cache |->
        IF cache[key] # NoEntry /\ cache[key].expires_at < t THEN NoEntry
        ELSE cache[key]]

\* _clean_stream_cache(), lines 214-217: the cache without the entries whose
\* expires_at <= now
CleanStreamCache(cache, t) ==
    [key \in DOMAIN cache |->
        IF cache[key] # NoEntry /\ cache[key].expires_at <= t THEN NoEntry
        ELSE cache[key]]

\* @app.on_event("shutdown"); the hook runs once the server has finished the
\* requests in flight.  cleaned: the count the hook logs
ShutdownResponse ==
    [op |-> "shutdown",
     cleaned |-> Cardinality({ key \in CacheKeys :
                                 CleanStreamCache(stream_cache, now)[key]
                                    # stream_cache[key] })]
Shutdown ==
    /\ \A s \in Slots : slots[s] = IdleSlot /\ relay[s] = NoRelay
    /\ stream_cache' = CleanStreamCache(stream_cache, now)
    /\ ytmusic_instances' = [u \in UserIds |-> NoHandle]
    /\ UNCHANGED <<oauthFile, credsFile, now, slots, firstGet, relay>>
    /\ UNCHANGED trackVars

\* the clock advances by d seconds
TickSteps == { 1, STREAM_CACHE_TTL - 1 }
ClockTicks(t) == (t \div (STREAM_CACHE_TTL - 1)) + (t % (STREAM_CACHE_TTL - 1))
Tick(d) ==
    /\ ClockTicks(now + d) <= MaxTicks
    /\ now' = now + d
    /\ UNCHANGED <<oauthFile, credsFile, ytmusic_instances, stream_cache,
                   slots, firstGet, relay>>
    /\ UNCHANGED trackVars

(***************************************************************************)
(* Track sidecar: paths.  A text is a sequence of characters; the file     *)
(* extension and ".tmp" are written as one element each.                   *)
(***************************************************************************)
InvalidChars == { "<", ">", ":", "\"", "/", "\\", "|", "?", "*" }

\* variant: the question mark is left in place
ReplaceInvalidKeepsQuestionMark(name) ==
    [i \in DOMAIN name |->
        IF name[i] \in InvalidChars \ { "?" } THEN "_" ELSE name[i]]

\* name.replace(ch, "_") for each ch of '<>:"/\|?*'
ReplaceInvalid(name) ==
    [i \in DOMAIN name |-> IF name[i] \in InvalidChars THEN "_" ELSE name[i]]

\* str.strip(". ")
RECURSIVE LStrip(_)
LStrip(name) ==
    IF name # << >> /\ Head(name) \in { ".", " " } THEN LStrip(Tail(name)) ELSE name
RECURSIVE RStrip(_)
RStrip(name) ==
    IF name # << >> /\ name[Len(name)] \in { ".", " " }
    THEN RStrip(SubSeq(name, 1, Len(name) - 1)) ELSE name
\* variant: only the leading dots and spaces are stripped
StripLeftOnly(name) == LStrip(name)

Strip(name) == RStrip(LStrip(name))

\* _sanitize_path_component(name)
SanitizePathComponent(name) == Strip(ReplaceInvalid(name))

\* str.split("/"): the segments between the slashes, empty ones included
RECURSIVE SplitFrom(_, _)
SplitFrom(text, current) ==
    IF text = << >> THEN << current >>
    ELSE IF Head(text) = "/" THEN << current >> \o SplitFrom(Tail(text), << >>)
    ELSE SplitFrom(Tail(text), Append(current, Head(text)))
Split(text) == SplitFrom(text, << >>)

\* "/".join(parts)
RECURSIVE Join(_)
Join(parts) ==
    IF parts = << >> THEN << >>
    ELSE IF Len(parts) = 1 THEN parts[1]
    ELSE parts[1] \o << "/" >> \o Join(Tail(parts))

\* [f(p) for p in parts if p]
RECURSIVE SanitizeNonEmpty(_)
SanitizeNonEmpty(parts) ==
    IF parts = << >> THEN << >>
    ELSE (IF Head(parts) # << >> THEN << SanitizePathComponent(Head(parts)) >> ELSE << >>)
         \o SanitizeNonEmpty(Tail(parts))

\* lines 130-132: the sanitized relative path of a rendered template
SanitizedRelativePath(rendered) == Join(SanitizeNonEmpty(Split(rendered)))

\* pathlib: a path is an anchor ("", "/" or "//") and its parts; parsing a text
\* drops empty and "." segments and keeps ".." segments
RECURSIVE LeadingSlashes(_)
LeadingSlashes(text) ==
    IF text # << >> /\ Head(text) = "/" THEN 1 + LeadingSlashes(Tail(text)) ELSE 0
Anchor(text) ==
    LET n == LeadingSlashes(text) IN
    IF n = 0 THEN "" ELSE IF n = 2 THEN "//" ELSE "/"
RECURSIVE KeepParts(_)
KeepParts(parts) ==
    IF parts = << >> THEN << >>
    ELSE (IF Head(parts) \in { << >>, << "." >> } THEN << >> ELSE << Head(parts) >>)
         \o KeepParts(Tail(parts))
PurePath(text) == [anchor |-> Anchor(text), parts |-> KeepParts(Split(text))]

\* MUSIC_PATH = Path(os.getenv("MUSIC_PATH", "/music"))
MUSIC_PATH == [anchor |-> "/", parts |-> << << "music" >> >>]

\* Path.__truediv__: an absolute right-hand side replaces the left-hand side
PathJoin(base, text) ==
    LET rhs == PurePath(text) IN
    IF rhs.anchor # "" THEN rhs
    ELSE [anchor |-> base.anchor, parts |-> base.parts \o rhs.parts]

\* line 143: dest_base / f"{relative_path}{file_extension}"
FilePath(dest_base, relative_path, file_extension) ==
    PathJoin(dest_base, Append(relative_path, file_extension))

\* line 147: file_path.with_suffix(file_path.suffix + ".tmp"); the name ends in
\* the extension, so the new name is the name followed by ".tmp"
TmpPath(file_path) ==
    LET n == Len(file_path.parts) IN
    [file_path EXCEPT !.parts[n] = Append(@, ".tmp")]

\* the file the path names lies under dest_base (a path that begins with two
\* slashes names the file of the path that begins with one)
IsUnder(path, base) ==
    /\ (IF path.anchor = "//" THEN "/" ELSE path.anchor)
         = (IF base.anchor = "//" THEN "/" ELSE base.anchor)
    /\ Len(path.parts) > Len(base.parts)
    /\ SubSeq(path.parts, 1, Len(base.parts)) = base.parts
    /\ \A i \in DOMAIN path.parts : path.parts[i] # << ".", "." >>

(***************************************************************************)
(* Track sidecar: the filesystem and _download_track_sync, which runs on a *)
(* worker thread; each step is one call that reads or writes the disk.     *)
(***************************************************************************)
Workers == { "w1", "w2" }
IdleWorker == [pc |-> "idle"]

\* the requests that can be in flight: a /download/track on each worker
\* thread and the /download/album
Requests == Workers \cup { "album" }
NoApi == [k |-> "none"]
\* _build_api(access_token, user_id, country_code), lines 95-103: a fresh
\* client of these credentials; by: the request that built it
BuildApi(access_token, user_id, country_code, by) ==
    [k |-> "api", token |-> access_token, user_id |-> user_id,
     country_code |-> country_code, by |-> by]
NoFile == [k |-> "none"]

\* the file a path names: the system resolves a path that begins with two
\* slashes as it does the path that begins with one, so the two name one file;
\* the disk is keyed by the resolved path
RealPath(path) == [path EXCEPT !.anchor = IF @ = "//" THEN "/" ELSE @]
FileAt(disk, path) ==
    IF RealPath(path) \in DOMAIN disk THEN disk[RealPath(path)] ELSE NoFile
PutFile(disk, path, content) ==
    [q \in DOMAIN disk \cup { RealPath(path) } |->
       IF q = RealPath(path) THEN content ELSE disk[q]]
RemoveFile(disk, path) == [q \in DOMAIN disk \ { RealPath(path) } |-> disk[q]]

\* a file: the stream bytes it holds or was extracted from, whether it is
\* exactly that (no byte missing, none left over from what was there before),
\* the FLAC stream extracted from its container or the raw bytes, tags
\* embedded, and the worker threads that hold it open for writing.  The
\* descriptors belong to the file, not to its path: a rename takes them along,
\* and a file that is unlinked or replaced takes them with it
File(data, whole, form, tagged) ==
    [k |-> "file", data |-> data, whole |-> whole, form |-> form, tagged |-> tagged,
     fds |-> { }]
\* open(path, "wb"): the file at path is truncated where it is, or created
Open(disk, path, w) ==
    PutFile(disk, path,
            [File(<< >>, TRUE, "raw", FALSE) EXCEPT
               !.fds = (IF FileAt(disk, path) # NoFile
                        THEN FileAt(disk, path).fds ELSE { })
                       \cup { w }])
\* content written to path by a library that opens it as open(path, "wb") does
Rewrite(disk, path, content) ==
    PutFile(disk, path,
            [content EXCEPT
               !.fds = IF FileAt(disk, path) # NoFile
                       THEN FileAt(disk, path).fds ELSE { }])
\* f.write(data) from offset 0, then close, by worker w on the file f it has
\* open: the bytes replace the first Len(data) bytes of what the file holds by
\* then.  What another library wrote there (an extracted stream, embedded
\* tags) has a length the source does not tell: covers says whether the write
\* reaches its end
WriteBytes(f, data, w, covers) ==
    IF f.form = "raw" /\ ~f.tagged /\ f.whole
    THEN [f EXCEPT !.data = data \o SubSeq(f.data, Len(data) + 1, Len(f.data)),
                   !.fds = @ \ { w }]
    ELSE [File(data, covers, "raw", FALSE) EXCEPT !.fds = f.fds \ { w }]

TrackIds == { 1, 2, 3 }
Title(track_id) == << "t", track_id >>
\* the bytes of a stream, in chunks: a longer and a shorter one
Bytes1 == << "k1", "k2" >>
Bytes2 == << "m1" >>
Datas == { Bytes1, Bytes2 }
Extensions == { ".flac", ".m4a" }

\* steps 1-3 (lines 121-140): metadata, template, stream, bytes.  The platform
\* calls return, or one of them raises ApiError or another exception
FetchOk(rendered, ext, data) ==
    [k |-> "ok", rendered |-> rendered, file_extension |-> ext, stream_data |-> data]
FetchApiError == [k |-> "api_error"]
FetchError == [k |-> "error"]

DownloadFetch(w, fetched) ==
    /\ workers[w].pc = "fetch"
    /\ workers' = [workers EXCEPT ![w] =
         IF fetched.k # "ok"
         THEN [pc |-> "failed", owner |-> @.owner, track |-> @.track,
               raised |-> fetched.k, extract_failed |-> "no"]
         ELSE LET relative_path == SanitizedRelativePath(fetched.rendered)
                  file_path == FilePath(MUSIC_PATH, relative_path, fetched.file_extension)
              IN [pc |-> "write", owner |-> @.owner, track |-> @.track,
                  rendered |-> fetched.rendered,
                  relative_path |-> relative_path,
                  file_extension |-> fetched.file_extension,
                  stream_data |-> fetched.stream_data,
                  file_path |-> file_path,
                  tmp_path |-> TmpPath(file_path),
                  extract_failed |-> "no"]]
    /\ UNCHANGED <<fs, album>>
    /\ UNCHANGED channelVars
    /\ UNCHANGED <<tidal_api, api_lock>>
    /\ UNCHANGED api

\* lines 144-148: mkdir, then tmp_path.write_bytes(stream_data) opens the file
\* (truncating it) ...
DownloadOpenTmp(w) ==
    /\ workers[w].pc = "write"
    /\ fs' = Open(fs, workers[w].tmp_path, w)
    /\ workers' = [workers EXCEPT ![w] = [@ EXCEPT !.pc = "writing"]]
    /\ UNCHANGED album
    /\ UNCHANGED channelVars
    /\ UNCHANGED <<tidal_api, api_lock>>
    /\ UNCHANGED api

\* ... and writes the bytes to the file it opened, wherever that file is by
\* then: still at tmp_path, or at file_path when a concurrent download of the
\* same path has moved it; when the file was unlinked or replaced meanwhile
\* the bytes are lost with it
DownloadWriteTmp(w, covers) ==
    /\ workers[w].pc = "writing"
    /\ fs' = [path \in DOMAIN fs |->
                IF w \in fs[path].fds
                THEN WriteBytes(fs[path], workers[w].stream_data, w, covers)
                ELSE fs[path]]
    /\ workers' = [workers EXCEPT ![w] =
                     [@ EXCEPT !.pc = IF workers[w].file_extension = ".flac"
                                      THEN "extract" ELSE "move"]]
    /\ UNCHANGED album
    /\ UNCHANGED channelVars
    /\ UNCHANGED <<tidal_api, api_lock>>
    /\ UNCHANGED api

\* line 154: extract_flac(tmp_path, file_path) reads the temp file and writes
\* the final file; it returns, or raises before or after it has written some
\* bytes to the final path (extract_failed records which)
ExtractOutcomes == { "ok", "fail_before", "fail_after" }
DownloadExtract(w, outcome) ==
    /\ workers[w].pc = "extract"
    /\ LET src == FileAt(fs, workers[w].tmp_path) IN
       IF src = NoFile \/ outcome = "fail_before"
       THEN /\ fs' = fs
            /\ workers' = [workers EXCEPT ![w] =
                             [@ EXCEPT !.pc = "move", !.extract_failed = "before"]]
       ELSE IF outcome = "fail_after"
       THEN /\ fs' = Rewrite(fs, workers[w].file_path,
                             File(src.data, FALSE, "flac", FALSE))
            /\ workers' = [workers EXCEPT ![w] =
                             [@ EXCEPT !.pc = "move", !.extract_failed = "after"]]
       ELSE /\ fs' = Rewrite(fs, workers[w].file_path,
                             File(src.data, src.whole, "flac", FALSE))
            /\ workers' = [workers EXCEPT ![w] = [@ EXCEPT !.pc = "unlink"]]
    /\ UNCHANGED album
    /\ UNCHANGED channelVars
    /\ UNCHANGED <<tidal_api, api_lock>>
    /\ UNCHANGED api

\* line 155: tmp_path.unlink(missing_ok=True)
DownloadUnlink(w) ==
    /\ workers[w].pc = "unlink"
    /\ fs' = RemoveFile(fs, workers[w].tmp_path)
    /\ workers' = [workers EXCEPT ![w] = [@ EXCEPT !.pc = "metadata"]]
    /\ UNCHANGED album
    /\ UNCHANGED channelVars
    /\ UNCHANGED <<tidal_api, api_lock>>
    /\ UNCHANGED api

\* variant: a copy instead of a move
MoveLeavesTmp(disk, src, dst) == PutFile(disk, dst, FileAt(disk, src))

\* shutil.move(src, dst) of a file that exists: dst is replaced
Move(disk, src, dst) == RemoveFile(PutFile(disk, dst, FileAt(disk, src)), src)

\* variant: a temp file that is not there is no error
DownloadMoveIgnoresMissing(w) ==
    /\ workers[w].pc = "move"
    /\ fs' = IF FileAt(fs, workers[w].tmp_path) = NoFile THEN fs
             ELSE Move(fs, workers[w].tmp_path, workers[w].file_path)
    /\ workers' = [workers EXCEPT ![w] = [@ EXCEPT !.pc = "metadata"]]
    /\ UNCHANGED album
    /\ UNCHANGED channelVars
    /\ UNCHANGED <<tidal_api, api_lock>>
    /\ UNCHANGED api

\* lines 158 and 160: shutil.move(str(tmp_path), str(file_path)); it raises when
\* the temp file is not there
DownloadMove(w) ==
    /\ workers[w].pc = "move"
    /\ IF FileAt(fs, workers[w].tmp_path) = NoFile
       THEN /\ fs' = fs
            /\ workers' = [workers EXCEPT ![w] =
                 [pc |-> "failed", owner |-> @.owner, track |-> @.track,
                  raised |-> "error", extract_failed |-> @.extract_failed]]
       ELSE /\ fs' = Move(fs, workers[w].tmp_path, workers[w].file_path)
            /\ workers' = [workers EXCEPT ![w] = [@ EXCEPT !.pc = "metadata"]]
    /\ UNCHANGED album
    /\ UNCHANGED channelVars
    /\ UNCHANGED <<tidal_api, api_lock>>
    /\ UNCHANGED api

\* lines 163-179: add_track_metadata embeds the tags in the final file, or
\* raises (the file is not there, or is not what the tagger reads), which is
\* logged and ignored
DownloadMetadata(w, embedded) ==
    /\ workers[w].pc = "metadata"
    /\ LET f == FileAt(fs, workers[w].file_path) IN
       fs' = IF embedded /\ f # NoFile
             THEN PutFile(fs, workers[w].file_path, [f EXCEPT !.tagged = TRUE])
             ELSE fs
    /\ workers' = [workers EXCEPT ![w] = [@ EXCEPT !.pc = "stat"]]
    /\ UNCHANGED album
    /\ UNCHANGED channelVars
    /\ UNCHANGED <<tidal_api, api_lock>>
    /\ UNCHANGED api

\* lines 181-190: the result; file_path.stat() raises when the file is not there
DownloadReturn(w) ==
    /\ workers[w].pc = "stat"
    /\ LET f == FileAt(fs, workers[w].file_path) IN
       workers' = [workers EXCEPT ![w] =
         IF f = NoFile
         THEN [pc |-> "failed", owner |-> @.owner, track |-> @.track,
               raised |-> "error", extract_failed |-> @.extract_failed]
         ELSE [pc |-> "done", owner |-> @.owner, track |-> @.track,
               file_path |-> @.file_path, tmp_path |-> @.tmp_path,
               stream_data |-> @.stream_data,
               file_extension |-> @.file_extension,
               extract_failed |-> @.extract_failed,
               result |-> [track_id |-> @.track, title |-> Title(@.track),
                           file_path |-> @.file_path,
                           relative_path |-> Append(@.relative_path, @.file_extension),
                           file_size |-> f]]]
    /\ UNCHANGED <<fs, album>>
    /\ UNCHANGED channelVars
    /\ UNCHANGED <<tidal_api, api_lock>>
    /\ UNCHANGED api

\* @app.post("/download/track"): 401 without an access token, else the
\* download runs on a worker thread
DownloadTrackBeginResponse(access_token) ==
    [op |-> "download_track", http |-> IF access_token = "" THEN 401 ELSE 200]
DownloadTrackRequest(w, track_id, access_token, user_id, country_code) ==
    /\ workers[w] = IdleWorker
    /\ workers' = IF access_token = "" THEN workers
                  ELSE [workers EXCEPT ![w] =
                          [pc |-> "fetch", owner |-> "track", track |-> track_id]]
    /\ api' = IF access_token = "" THEN api
              ELSE [api EXCEPT ![w] = BuildApi(access_token, user_id, country_code, w)]
    /\ UNCHANGED <<fs, album>>
    /\ UNCHANGED channelVars
    /\ UNCHANGED <<tidal_api, api_lock>>

\* a request that leaves user_id and country_code at their defaults
DownloadTrackBegin(w, track_id, access_token) ==
    DownloadTrackRequest(w, track_id, access_token, "", "US")

\* download_track, lines 369-374: the result, or 400 for ApiError and 500 for
\* any other exception
DownloadTrackResponse(w) ==
    IF workers[w].pc = "done"
    THEN [op |-> "download_track", http |-> 200, result |-> workers[w].result]
    ELSE [op |-> "download_track",
          http |-> IF workers[w].raised = "api_error" THEN 400 ELSE 500]
DownloadTrackEnd(w) ==
    /\ workers[w].pc \in { "done", "failed" }
    /\ workers[w].owner = "track"
    /\ workers' = [workers EXCEPT ![w] = IdleWorker]
    /\ UNCHANGED <<fs, album>>
    /\ UNCHANGED channelVars
    /\ UNCHANGED <<tidal_api, api_lock>>
    /\ api' = [api EXCEPT ![w] = NoApi]

(***************************************************************************)
(* Track sidecar: /download/album                                          *)
(***************************************************************************)
IdleAlbum == [pc |-> "idle"]

\* album items: a track (it has an isrc), a video (no isrc), an entry without
\* an item
TrackItem(id) == [k |-> "track", id |-> id, title |-> Title(id)]
VideoItem(id) == [k |-> "video", id |-> id, title |-> Title(id)]
BareItem == [k |-> "bare"]
\* hasattr(album_item, "item") and hasattr(album_item.item, "isrc")
HasIsrc(album_item) == album_item.k = "track"

RECURSIVE IsrcItems(_)
IsrcItems(items) ==
    IF items = << >> THEN << >>
    ELSE (IF HasIsrc(Head(items)) THEN << Head(items) >> ELSE << >>)
         \o IsrcItems(Tail(items))

\* what api.get_album_items returns: items, limit, totalNumberOfItems
Page(items, limit, total) ==
    [k |-> "page", items |-> items, limit |-> limit, totalNumberOfItems |-> total]
Pages == { Page(<< TrackItem(1), VideoItem(3), TrackItem(2) >>, 100, 3),
           Page(<< TrackItem(1), BareItem >>, 2, 4),
           Page(<< TrackItem(3), TrackItem(1) >>, 2, 4),
           Page(<< >>, 100, 0),
           [k |-> "api_error"], [k |-> "error"] }

\* download_album up to the track listing (lines 385-391): 401 without an
\* access token; api.get_album returns or raises
AlbumRequest(access_token, user_id, country_code, lookup) ==
    /\ album = IdleAlbum
    /\ album' = IF access_token = "" THEN [pc |-> "end", http |-> 401, stage |-> "token",
                                            attempts |-> << >>]
                ELSE IF lookup # "ok"
                THEN [pc |-> "end", stage |-> "lookup", attempts |-> << >>,
                      http |-> IF lookup = "api_error" THEN 400 ELSE 500]
                ELSE [pc |-> "listing", tracks |-> << >>, offset |-> 0, pages |-> 0]
    /\ UNCHANGED <<fs, workers>>
    /\ UNCHANGED channelVars
    /\ UNCHANGED <<tidal_api, api_lock>>
    /\ api' = IF access_token = "" THEN api
              ELSE [api EXCEPT !["album"] =
                      BuildApi(access_token, user_id, country_code, "album")]

\* a request that leaves user_id and country_code at their defaults
AlbumBegin(access_token, lookup) == AlbumRequest(access_token, "", "US", lookup)

\* one turn of the listing loop (lines 393-403)
AlbumFetchPage(page) ==
    /\ album.pc = "listing"
    /\ album.pages < MaxPages
    /\ IF page.k # "page"
       THEN album' = [pc |-> "end", stage |-> "listing", attempts |-> << >>,
                      http |-> IF page.k = "api_error" THEN 400 ELSE 500]
       ELSE LET tracks == album.tracks \o IsrcItems(page.items)
                offset == album.offset + page.limit IN
            /\ Len(tracks) <= MaxTracks
            /\ album' = IF offset >= page.totalNumberOfItems
                        THEN [pc |-> "tracks", tracks |-> tracks, i |-> 0,
                              delayed |-> FALSE, delays |-> 0,
                              results |-> << >>, errors |-> << >>,
                              attempts |-> << >>]
                        ELSE [album EXCEPT !.tracks = tracks, !.offset = offset,
                                           !.pages = @ + 1]
    /\ UNCHANGED <<fs, workers>>
    /\ UNCHANGED channelVars
    /\ UNCHANGED <<tidal_api, api_lock>>
    /\ UNCHANGED api

\* variant: the first track is delayed too
AlbumSleepBeforeFirst ==
    /\ album.pc = "tracks"
    /\ album.i < Len(album.tracks)
    /\ ~album.delayed
    /\ album' = [album EXCEPT !.delayed = TRUE, !.delays = @ + 1]
    /\ UNCHANGED <<fs, workers>>
    /\ UNCHANGED channelVars
    /\ UNCHANGED <<tidal_api, api_lock>>
    /\ UNCHANGED api

\* lines 410-413: the delay before every track but the first
AlbumSleep ==
    /\ album.pc = "tracks"
    /\ album.i < Len(album.tracks)
    /\ album.i > 0
    /\ ~album.delayed
    /\ album' = [album EXCEPT !.delayed = TRUE, !.delays = @ + 1]
    /\ UNCHANGED <<fs, workers>>
    /\ UNCHANGED channelVars
    /\ UNCHANGED <<tidal_api, api_lock>>
    /\ UNCHANGED api

\* variant: every track of an album is downloaded with a handle of its own
AlbumStartTrackBuildsApi(w) ==
    /\ album.pc = "tracks"
    /\ album.i < Len(album.tracks)
    /\ album.i = 0 \/ album.delayed
    /\ workers[w] = IdleWorker
    /\ workers' = [workers EXCEPT ![w] =
                     [pc |-> "fetch", owner |-> "album",
                      track |-> album.tracks[album.i + 1].id]]
    /\ album' = [album EXCEPT !.pc = "await",
                   !.attempts = Append(@, [track_id |-> album.tracks[album.i + 1].id,
                                           ended |-> "running"])]
    /\ UNCHANGED fs
    /\ UNCHANGED channelVars
    /\ UNCHANGED <<tidal_api, api_lock>>
    /\ api' = [api EXCEPT ![w] = [api["album"] EXCEPT !.by = w]]

\* lines 415-423: the download of tracks[i] is handed to a worker thread;
\* attempts is the history of the tracks handed over and how each ended
AlbumStartTrack(w) ==
    /\ album.pc = "tracks"
    /\ album.i < Len(album.tracks)
    /\ album.i = 0 \/ album.delayed
    /\ workers[w] = IdleWorker
    /\ workers' = [workers EXCEPT ![w] =
                     [pc |-> "fetch", owner |-> "album",
                      track |-> album.tracks[album.i + 1].id]]
    /\ album' = [album EXCEPT !.pc = "await",
                   !.attempts = Append(@, [track_id |-> album.tracks[album.i + 1].id,
                                           ended |-> "running"])]
    /\ UNCHANGED fs
    /\ UNCHANGED channelVars
    /\ UNCHANGED <<tidal_api, api_lock>>
    /\ api' = [api EXCEPT ![w] = api["album"]]

\* variant: a platform API error of a track ends the request with 400
AlbumCollectApiErrorEscapes(w) ==
    /\ album.pc = "await"
    /\ workers[w].pc \in { "done", "failed" }
    /\ workers[w].owner = "album"
    /\ LET track == album.tracks[album.i + 1]
           n == Len(album.attempts) IN
       album' =
         IF workers[w].pc = "done"
         THEN [album EXCEPT !.pc = "tracks", !.i = @ + 1, !.delayed = FALSE,
                            !.results = Append(@, workers[w].result),
                            !.attempts[n].ended = "done"]
         ELSE IF workers[w].raised = "api_error"
         THEN [pc |-> "end", stage |-> "track", http |-> 400,
               attempts |-> [album.attempts EXCEPT ![n].ended = "failed"]]
         ELSE [album EXCEPT !.pc = "tracks", !.i = @ + 1, !.delayed = FALSE,
                            !.errors = Append(@, [track_id |-> track.id,
                                                  title |-> track.title,
                                                  error |-> workers[w].raised]),
                            !.attempts[n].ended = "failed"]
    /\ workers' = [workers EXCEPT ![w] = IdleWorker]
    /\ UNCHANGED fs
    /\ UNCHANGED channelVars
    /\ UNCHANGED <<tidal_api, api_lock>>
    /\ api' = [api EXCEPT ![w] = NoApi]

\* lines 423-431: the worker's result is appended to results, or what it raised
\* (any Exception) to errors
AlbumCollect(w) ==
    /\ album.pc = "await"
    /\ workers[w].pc \in { "done", "failed" }
    /\ workers[w].owner = "album"
    /\ LET track == album.tracks[album.i + 1]
           n == Len(album.attempts) IN
       album' =
         IF workers[w].pc = "done"
         THEN [album EXCEPT !.pc = "tracks", !.i = @ + 1, !.delayed = FALSE,
                            !.results = Append(@, workers[w].result),
                            !.attempts[n].ended = "done"]
         ELSE [album EXCEPT !.pc = "tracks", !.i = @ + 1, !.delayed = FALSE,
                            !.errors = Append(@, [track_id |-> track.id,
                                                  title |-> track.title,
                                                  error |-> workers[w].raised]),
                            !.attempts[n].ended = "failed"]
    /\ workers' = [workers EXCEPT ![w] = IdleWorker]
    /\ UNCHANGED fs
    /\ UNCHANGED channelVars
    /\ UNCHANGED <<tidal_api, api_lock>>
    /\ api' = [api EXCEPT ![w] = NoApi]

\* variant: downloaded counts the listing
AlbumSummaryCountsTracks(tracks, results, errors) ==
    [total_tracks |-> Len(tracks), downloaded |-> Len(tracks),
     failed |-> Len(errors), tracks |-> results, errors |-> errors]

\* lines 433-442: the response body
AlbumSummary(tracks, results, errors) ==
    [total_tracks |-> Len(tracks), downloaded |-> Len(results),
     failed |-> Len(errors), tracks |-> results, errors |-> errors]

\* the loop is over: the response is returned
AlbumRespond ==
    /\ album.pc = "tracks"
    /\ album.i = Len(album.tracks)
    /\ album' = [pc |-> "end", stage |-> "tracks", http |-> 200,
                 listing |-> album.tracks, attempts |-> album.attempts,
                 delays |-> album.delays,
                 body |-> AlbumSummary(album.tracks, album.results, album.errors)]
    /\ UNCHANGED <<fs, workers>>
    /\ UNCHANGED channelVars
    /\ UNCHANGED <<tidal_api, api_lock>>
    /\ UNCHANGED api

\* the response of /download/album as its caller saw it
AlbumResponse ==
    IF album.http = 200
    THEN [op |-> "download_album", http |-> 200, body |-> album.body]
    ELSE [op |-> "download_album", http |-> album.http]
AlbumEnd ==
    /\ album.pc = "end"
    /\ album' = IdleAlbum
    /\ UNCHANGED <<fs, workers>>
    /\ UNCHANGED channelVars
    /\ UNCHANGED <<tidal_api, api_lock>>
    /\ api' = [api EXCEPT !["album"] = NoApi]

(***************************************************************************)
(* The Channel sidecar: credentials and the handle cache.                  *)
(***************************************************************************)
TrackOff ==
    /\ fs = << >>
    /\ workers = << >>
    /\ album = [pc |-> "off"]
    /\ tidal_api = NoApi
    /\ api_lock = "unlocked"
    /\ api = << >>

\* process start: the caches are empty
ChannelStart ==
    /\ ytmusic_instances = [u \in UserIds |-> NoHandle]
    /\ stream_cache = [key \in CacheKeys |-> NoEntry]
    /\ now = 0
    /\ slots = [s \in Slots |-> IdleSlot]
    /\ event = NoEvent
    /\ firstGet = [u \in UserIds |-> [k |-> "none"]]
    /\ relay = [s \in Slots |-> NoRelay]

\* the data directory at process start: empty, or holding what an earlier run
\* or an operator left there
InitDisks == { [oauth |-> Absent, creds |-> Absent],
               [oauth |-> NotJson, creds |-> Absent],
               [oauth |-> JsonText("tokA"), creds |-> JsonText(NoKeysDoc)] }
Init ==
    /\ \E d \in [UserIds -> InitDisks] :
         /\ oauthFile = [u \in UserIds |-> d[u].oauth]
         /\ credsFile = [u \in UserIds |-> d[u].creds]
    /\ ChannelStart
    /\ TrackOff

SpecRestoreBodies ==
    { [oauth_json |-> Missing, client_id |-> "cid1", client_secret |-> "sec1"],
      [oauth_json |-> NonString, client_id |-> "", client_secret |-> ""],
      [oauth_json |-> NotJson, client_id |-> "cid1", client_secret |-> "sec1"],
      [oauth_json |-> JsonText("tokB"), client_id |-> "cid1", client_secret |-> "sec1"],
      [oauth_json |-> JsonText("tokA"), client_id |-> "cid1", client_secret |-> ""],
      [oauth_json |-> JsonText(JunkDoc), client_id |-> "", client_secret |-> ""] }
SpecVideoIds == { << "c" >> }
SpecPollRequests == { [client_id |-> "cid1", client_secret |-> "sec1"] }
SpecPollReturns == { [k |-> "token", token |-> "tokA"],
                     [k |-> "error", error |-> "authorization_pending"],
                     [k |-> "error", error |-> "invalid_grant"],
                     [k |-> "raise", text |-> Text("connection reset")] }
SpecInfos == { [k |-> "none"], Info("cdn", Text("mp4a.40.2"), << >>) }

Next ==
    \/ \E u \in UserIds : AuthStatus(u) /\ Silent
    \/ \E u \in UserIds : CatalogCall(u) /\ Silent
    \/ \E u \in UserIds, body \in SpecRestoreBodies : AuthRestore(u, body) /\ Silent
    \/ \E u \in UserIds : AuthClear(u) /\ Silent
    \/ \E u \in UserIds, req \in SpecPollRequests, ret \in SpecPollReturns :
         AuthDeviceCodePoll(u, req, ret) /\ Silent
    \/ \E u \in UserIds, v \in SpecVideoIds :
         StreamBegin("s1", "stream", u, v, "HIGH", RangeNone) /\ Silent
    \/ ThreadCheck("s1") /\ Silent
    \/ \E info \in SpecInfos : ThreadExtract("s1", info) /\ Silent
    \/ StreamRespond("s1") /\ Silent

Spec == Init /\ [][Next]_vars

(***************************************************************************)
(* The Channel sidecar: /auth/device-code/poll and its responses.          *)
(***************************************************************************)
PollNext ==
    \/ \E u \in UserIds, req \in PollRequests, ret \in PollReturns :
         /\ AuthDeviceCodePoll(u, req, ret)
         /\ Observe(AuthDeviceCodePollResponse(u, req, ret))
    \/ \E u \in UserIds : CatalogCall(u) /\ Observe(CatalogResponse(u, TRUE))

PollSpec == Init /\ [][PollNext]_vars

(***************************************************************************)
(* The Channel sidecar: /stream requests against the stream cache while    *)
(* the clock advances.  Both users hold valid credentials.                 *)
(***************************************************************************)
StreamInit ==
    /\ oauthFile = [u \in UserIds |-> JsonText("tokA")]
    /\ credsFile = [u \in UserIds |-> Absent]
    /\ ChannelStart
    /\ TrackOff

StreamUserIds == { << "a" >> }
StreamInfos == { [k |-> "none"], [k |-> "raise"],
                 Info("cdn", Text("mp4a.40.2"), << >>),
                 Info("", << >>,
                      << Fmt("none", "avc1", 0, "fv"), Fmt("mp4a", "avc1", 128, "fav") >>),
                 Info("", Text("flac"),
                      << Fmt("opus", "none", 64, "f64"), Fmt("opus", "none", 128, "") >>) }

StreamNext ==
    \/ \E u \in StreamUserIds, v \in VideoIds, q \in Qualities :
         /\ StreamBegin("s1", "stream", u, v, q, RangeNone)
         /\ Silent
    \/ ThreadCheck("s1") /\ Silent
    \/ \E info \in StreamInfos : ThreadExtract("s1", info) /\ Silent
    \/ /\ StreamRespond("s1")
       /\ Observe([response |-> StreamRespondResponse("s1"),
                   checked_at |-> slots["s1"].checked_at])
    \/ \E d \in TickSteps : Tick(d) /\ Silent

StreamSpec == StreamInit /\ [][StreamNext]_vars

(***************************************************************************)
(* The Channel sidecar: /proxy requests, with and without a Range header.  *)
(***************************************************************************)
ProxyInfos == { [k |-> "none"], Info("cdn", Text("mp4a.40.2"), << >>),
                Info("cdn2", Text("opus"), << >>) }

ProxyNext ==
    \/ \E u \in StreamUserIds, range \in Ranges :
         StreamBegin("s1", "proxy", u, << "c" >>, "HIGH", range) /\ Silent
    \/ ThreadCheck("s1") /\ Silent
    \/ \E info \in ProxyInfos : ThreadExtract("s1", info) /\ Silent
    \/ StreamRespond("s1") /\ Observe(StreamRespondResponse("s1"))
    \/ \E upstream \in Upstreams :
         \E buffered \in 0..Len(upstream.chunks) :
            ProxyRespond("s1", upstream, buffered) /\ Silent
    \/ RelayChunk("s1") /\ Silent
    \/ ProxyEnd("s1") /\ Observe(ProxyResponse("s1"))

ProxySpec == StreamInit /\ [][ProxyNext]_vars

(***************************************************************************)
(* The Track sidecar.  It shares nothing with the Channel sidecar, whose   *)
(* state stays as it is at process start.                                  *)
(***************************************************************************)
TrackInit ==
    /\ oauthFile = [u \in UserIds |-> Absent]
    /\ credsFile = [u \in UserIds |-> Absent]
    /\ ChannelStart
    /\ workers = [w \in Workers |-> IdleWorker]
    /\ album = IdleAlbum
    /\ tidal_api = NoApi
    /\ api_lock = "unlocked"
    /\ api = [r \in Requests |-> NoApi]

AccessTokens == { "", "tok" }

\* the steps of the download running on worker w
DownloadSteps(w) ==
    \/ DownloadOpenTmp(w) /\ Silent
    \/ \E covers \in BOOLEAN : DownloadWriteTmp(w, covers) /\ Silent
    \/ \E outcome \in ExtractOutcomes : DownloadExtract(w, outcome) /\ Silent
    \/ DownloadUnlink(w) /\ Silent
    \/ DownloadMove(w) /\ Silent
    \/ \E embedded \in BOOLEAN : DownloadMetadata(w, embedded) /\ Silent
    \/ DownloadReturn(w) /\ Silent

(***************************************************************************)
(* The Track sidecar: one /download/track into an empty library, for every *)
(* text the template can render to.                                        *)
(***************************************************************************)
Chars == { "a", ".", " ", "/", ":" }
Rendered == UNION { [1..n -> Chars] : n \in 0..MaxLen }

PathInit == TrackInit /\ fs = << >>

PathNext ==
    \/ \E access_token \in AccessTokens :
         /\ fs = << >>
         /\ DownloadTrackBegin("w1", 1, access_token)
         /\ Observe(DownloadTrackBeginResponse(access_token))
    \/ \E rendered \in Rendered, ext \in Extensions :
         DownloadFetch("w1", FetchOk(rendered, ext, Bytes1)) /\ Silent
    \/ DownloadSteps("w1")
    \/ DownloadTrackEnd("w1") /\ Observe(DownloadTrackResponse("w1"))

PathSpec == PathInit /\ [][PathNext]_vars

(***************************************************************************)
(* The Track sidecar: /download/track requests whose target paths differ   *)
(* while they run together, into a library that may hold an older copy.    *)
(***************************************************************************)
OlderCopy == FilePath(MUSIC_PATH, << "a" >>, ".flac")
DownloadInit ==
    /\ TrackInit
    /\ fs \in { << >>, PutFile(<< >>, OlderCopy, File(Bytes2, TRUE, "flac", TRUE)) }

DownloadFetches(w) ==
    IF w = "w1"
    THEN { FetchOk(<< "a" >>, ".flac", d) : d \in Datas } \cup { FetchApiError }
    ELSE { FetchOk(<< "b" >>, ".m4a", Bytes1), FetchError }

DownloadNext ==
    \/ \E w \in Workers, access_token \in AccessTokens :
         /\ DownloadTrackBegin(w, 1, access_token)
         /\ Observe(DownloadTrackBeginResponse(access_token))
    \/ \E w \in Workers : \E fetched \in DownloadFetches(w) :
         DownloadFetch(w, fetched) /\ Silent
    \/ \E w \in Workers : DownloadSteps(w)
    \/ \E w \in Workers :
         DownloadTrackEnd(w) /\ Observe(DownloadTrackResponse(w))

DownloadSpec == DownloadInit /\ [][DownloadNext]_vars

(***************************************************************************)
(* The Track sidecar: /download/album requests, one at a time.             *)
(***************************************************************************)
AlbumFetches == { FetchOk(<< "a" >>, ".flac", Bytes1), FetchApiError, FetchError }

AlbumInit == TrackInit /\ fs = << >>

AlbumNext ==
    \/ \E access_token \in AccessTokens, lookup \in { "ok", "api_error", "error" } :
         AlbumBegin(access_token, lookup) /\ Silent
    \/ \E page \in Pages : AlbumFetchPage(page) /\ Silent
    \/ AlbumSleep /\ Silent
    \/ AlbumStartTrack("w1") /\ Silent
    \/ \E fetched \in AlbumFetches : DownloadFetch("w1", fetched) /\ Silent
    \/ DownloadOpenTmp("w1") /\ Silent
    \/ \E covers \in BOOLEAN : DownloadWriteTmp("w1", covers) /\ Silent
    \/ \E outcome \in { "ok", "fail_after" } : DownloadExtract("w1", outcome) /\ Silent
    \/ DownloadUnlink("w1") /\ Silent
    \/ DownloadMove("w1") /\ Silent
    \/ DownloadMetadata("w1", TRUE) /\ Silent
    \/ DownloadReturn("w1") /\ Silent
    \/ AlbumCollect("w1") /\ Silent
    \/ AlbumRespond /\ Silent
    \/ AlbumEnd /\ Observe(AlbumResponse)

AlbumSpec == AlbumInit /\ [][AlbumNext]_vars

(***************************************************************************)
(* The Channel sidecar: /stream requests of every quality, known and       *)
(* unknown (the quality is a free query string), with the extractor's      *)
(* invocation observed.                                                    *)
(***************************************************************************)
FormatQualities == { "LOW", "MEDIUM", "HIGH", "LOSSLESS", "", "high", "ULTRA" }

\* lines 161-175: the options and the URL yt-dlp is invoked with
ExtractorCall(s) ==
    [op |-> "extract", video |-> slots[s].video, quality |-> slots[s].quality,
     format |-> FormatMap(slots[s].quality)]

FormatNext ==
    \/ \E u \in StreamUserIds, v \in VideoIds, q \in FormatQualities :
         StreamBegin("s1", "stream", u, v, q, RangeNone) /\ Silent
    \/ ThreadCheck("s1") /\ Silent
    \/ \E info \in StreamInfos :
         ThreadExtract("s1", info) /\ Observe(ExtractorCall("s1"))
    \/ StreamRespond("s1") /\ Silent

FormatSpec == StreamInit /\ [][FormatNext]_vars

(***************************************************************************)
(* The Track sidecar: _sanitize_path_component applied to every segment of *)
(* up to MaxLen characters, to the segment "My: Song? ", and to its own    *)
(* results; event holds the last call and what it returned.                *)
(***************************************************************************)
SegmentChars == InvalidChars \cup { "a", "_", ".", " " }
ExampleSegment == << "M", "y", ":", " ", "S", "o", "n", "g", "?", " " >>
Segments == UNION { [1..n -> SegmentChars] : n \in 0..MaxLen } \cup { ExampleSegment }

SanitizeResponse(name) ==
    [op |-> "sanitize", name |-> name, out |-> SanitizePathComponent(name)]

\* _sanitize_path_component(name)
SanitizeCall(name) ==
    /\ Observe(SanitizeResponse(name))
    /\ UNCHANGED <<fs, workers, album>>
    /\ UNCHANGED channelVars
    /\ UNCHANGED <<tidal_api, api_lock>>
    /\ UNCHANGED api

\* _sanitize_path_component applied to what the last call returned
SanitizeAgain ==
    /\ event.op = "sanitize"
    /\ SanitizeCall(event.out)

\* one segment is drawn, sanitized, and the result sanitized again
SanitizeNext ==
    \/ \E name \in Segments : event = NoEvent /\ SanitizeCall(name)
    \/ SanitizeAgain

SanitizeInit == TrackInit /\ fs = << >>

SanitizeSpec == SanitizeInit /\ [][SanitizeNext]_vars

(***************************************************************************)
(* The Channel sidecar: the credential and catalog routes with every       *)
(* response observed, over every kind of file the data directory can hold  *)
(* and every /auth/restore body.                                           *)
(***************************************************************************)
AuthDisks == InitDisks \cup
             { [oauth |-> JsonText("tokA"), creds |-> Absent],
               [oauth |-> JsonText("tokA"), creds |-> NotJson],
               [oauth |-> JsonText(JunkDoc), creds |-> Absent] }
AuthInit ==
    /\ \E d \in [UserIds -> AuthDisks] :
         /\ oauthFile = [u \in UserIds |-> d[u].oauth]
         /\ credsFile = [u \in UserIds |-> d[u].creds]
    /\ ChannelStart
    /\ TrackOff

AuthNext ==
    \/ \E u \in UserIds : AuthStatus(u) /\ Observe(AuthStatusResponse(u))
    \/ \E u \in UserIds, platform_ok \in BOOLEAN :
         CatalogCall(u) /\ Observe(CatalogResponse(u, platform_ok))
    \/ \E u \in UserIds, body \in RestoreBodies :
         AuthRestore(u, body) /\ Observe(AuthRestoreResponse(u, body))
    \/ \E u \in UserIds : AuthClear(u) /\ Observe(AuthClearResponse(u))

AuthSpec == AuthInit /\ [][AuthNext]_vars

(***************************************************************************)
(* The Channel sidecar: /auth/clear among catalog, /stream and /proxy      *)
(* requests, restores and polls, for users who start with credentials.     *)
(***************************************************************************)
ClearRestoreBodies ==
    { [oauth_json |-> NotJson, client_id |-> "cid1", client_secret |-> "sec1"],
      [oauth_json |-> JsonText("tokA"), client_id |-> "", client_secret |-> ""],
      [oauth_json |-> JsonText(JunkDoc), client_id |-> "", client_secret |-> ""] }
ClearPollReturns == { [k |-> "token", token |-> "tokA"],
                      [k |-> "error", error |-> "authorization_pending"] }
ClearUpstream == Upstream(200, NoHeader, "3", << "x1" >>)

ClearNext ==
    \/ \E u \in UserIds : AuthClear(u) /\ Observe(AuthClearResponse(u))
    \/ \E u \in UserIds, body \in ClearRestoreBodies :
         AuthRestore(u, body) /\ Observe(AuthRestoreResponse(u, body))
    \/ \E u \in UserIds, req \in SpecPollRequests, ret \in ClearPollReturns :
         /\ AuthDeviceCodePoll(u, req, ret)
         /\ Observe(AuthDeviceCodePollResponse(u, req, ret))
    \/ \E u \in UserIds :
         CatalogCall(u) /\ Observe(CatalogResponse(u, TRUE))
    \/ \E u \in UserIds, kind \in { "stream", "proxy" } :
         /\ StreamBegin("s1", kind, u, << "c" >>, "HIGH", RangeNone)
         /\ Observe(StreamBeginResponse(kind, u))
    \/ ThreadCheck("s1") /\ Silent
    \/ \E info \in SpecInfos : ThreadExtract("s1", info) /\ Silent
    \/ StreamRespond("s1") /\ Observe(StreamRespondResponse("s1"))
    \/ ProxyRespond("s1", ClearUpstream, 1) /\ Silent
    \/ RelayChunk("s1") /\ Silent
    \/ ProxyEnd("s1") /\ Observe(ProxyResponse("s1"))

ClearSpec == StreamInit /\ [][ClearNext]_vars

(***************************************************************************)
(* The Channel sidecar: one /search, for every list of up to MaxResults    *)
(* results the platform can return, by a user with or without credentials. *)
(***************************************************************************)
SearchResults ==
    { SearchResult(Text("song"), Text("Songs"), "e1", << "x", "y" >>, ""),
      SearchResult(Text("album"), Text("Albums"), "e3", << "y" >>, ""),
      SearchResult(Text("artist"), Text("Artists"), "e4", << >>, "z"),
      SearchResult(Text("video"), Text("Videos"), "e5", << >>, ""),
      SearchResult(Text("playlist"), Text("Community playlists"), "e6", << >>, ""),
      SearchResult(<< >>, Text("Video"), "e7", << "x" >>, ""),
      SearchResult(<< >>, Text("Songs"), "e8", << "x" >>, ""),
      SearchResult(<< >>, Text("Song"), "e9", << "y", "x" >>, "") }
PlatformAnswers ==
    { [k |-> "results", results |-> r] :
        r \in UNION { [1..n -> SearchResults] : n \in 0..MaxResults } }
    \cup { [k |-> "raise"] }

SearchNext ==
    \/ \E u \in StreamUserIds : event = NoEvent /\ AuthClear(u) /\ Silent
    \/ \E u \in StreamUserIds, platform \in PlatformAnswers :
         /\ event = NoEvent
         /\ CatalogCall(u)
         /\ Observe([op |-> "search", platform |-> platform,
                    response |-> SearchResponse(u, platform)])

SearchSpec == StreamInit /\ [][SearchNext]_vars

(***************************************************************************)
(* The Channel sidecar: /stream requests of both users while the clock     *)
(* advances, until the process is shut down.                               *)
(***************************************************************************)
ShutdownNext ==
    /\ event.op # "shutdown"
    /\ \/ \E u \in UserIds, v \in SpecVideoIds :
            StreamBegin("s1", "stream", u, v, "HIGH", RangeNone) /\ Silent
       \/ ThreadCheck("s1") /\ Silent
       \/ \E info \in SpecInfos : ThreadExtract("s1", info) /\ Silent
       \/ StreamRespond("s1") /\ Silent
       \/ \E d \in TickSteps : Tick(d) /\ Silent
       \/ Shutdown /\ Observe(ShutdownResponse)

ShutdownSpec == StreamInit /\ [][ShutdownNext]_vars

(***************************************************************************)
(* The Channel sidecar: two /stream requests in flight at once, for the    *)
(* same user or not, and restores that pop a user's handle.  Every handler *)
(* is a coroutine and _get_ytmusic has no await: the lookup, the           *)
(* construction and the store of a handle are one step of the event loop.  *)
(* event keeps, per request in flight, whether its _get_ytmusic logged     *)
(* "Loaded YTMusic for user ..." (line 116).                               *)
(***************************************************************************)
RequestLog ==
    IF event.op = "requests" THEN event.log ELSE [s \in Slots |-> [k |-> "idle"]]
LoadedLog(s, user_id) ==
    [op |-> "requests",
     log |-> [RequestLog EXCEPT ![s] =
                [k |-> "request", user |-> user_id,
                 loaded |-> GetYtmusic(user_id).built]]]
DoneLog(s) ==
    [op |-> "requests", log |-> [RequestLog EXCEPT ![s] = [k |-> "idle"]]]

RaceRestoreBody ==
    [oauth_json |-> JsonText("tokB"), client_id |-> "", client_secret |-> ""]

RaceNext ==
    \/ \E s \in Slots, u \in UserIds :
         /\ StreamBegin(s, "stream", u, << "c" >>, "HIGH", RangeNone)
         /\ Observe(LoadedLog(s, u))
    \/ \E s \in Slots : ThreadCheck(s) /\ Silent
    \/ \E s \in Slots, info \in SpecInfos : ThreadExtract(s, info) /\ Silent
    \/ \E s \in Slots : StreamRespond(s) /\ Observe(DoneLog(s))
    \/ \E u \in UserIds : AuthRestore(u, RaceRestoreBody) /\ Silent

RaceSpec == StreamInit /\ [][RaceNext]_vars

(***************************************************************************)
(* The Channel sidecar: two /stream requests for one user and one video in *)
(* flight at once, their resolutions running on two worker threads while   *)
(* the clock advances.  The lookup (line 147) and the store (line 203) of  *)
(* a thread are separate steps; the extractor answers each call on its own.*)
(***************************************************************************)
ResolveInfos == { [k |-> "none"],
                  Info("cdn", Text("mp4a.40.2"), << >>),
                  Info("cdn2", Text("opus"), << >>) }

ResolveNext ==
    \/ \E s \in Slots, u \in StreamUserIds, q \in Qualities :
         StreamBegin(s, "stream", u, << "c" >>, q, RangeNone) /\ Silent
    \/ \E s \in Slots : ThreadCheck(s) /\ Silent
    \/ \E s \in Slots, info \in ResolveInfos : ThreadExtract(s, info) /\ Silent
    \/ \E s \in Slots : StreamRespond(s) /\ Observe(StreamRespondResponse(s))
    \/ Tick(1) /\ Silent

ResolveSpec == StreamInit /\ [][ResolveNext]_vars

(***************************************************************************)
(* The Track sidecar: two /download/track requests into an empty library   *)
(* whose templates render to the same text, or to two texts whose paths    *)
(* name one file outside the library, on two worker threads.  A download   *)
(* starts while the library is still empty, so that each worker opens the  *)
(* temp file at most once after the other has.                             *)
(***************************************************************************)
TmpRaceRendered(w) ==
    { << "a" >>,
      IF w = "w1" THEN << ".", "/", ".", "/", "a" >> ELSE << " ", "/", "a" >> }
TmpRaceFetch(w, rendered, ext) ==
    FetchOk(rendered, ext, IF w = "w1" THEN Bytes1 ELSE Bytes2)

TmpRaceNext ==
    \/ \E w \in Workers :
         /\ fs = << >>
         /\ DownloadTrackBegin(w, IF w = "w1" THEN 1 ELSE 2, "tok")
         /\ Silent
    \/ \E w \in Workers, ext \in Extensions : \E rendered \in TmpRaceRendered(w) :
         DownloadFetch(w, TmpRaceFetch(w, rendered, ext)) /\ Silent
    \/ \E w \in Workers : DownloadSteps(w)
    \/ \E w \in Workers :
         DownloadTrackEnd(w) /\ Observe(DownloadTrackResponse(w))

TmpRaceSpec == PathInit /\ [][TmpRaceNext]_vars

(***************************************************************************)
(* The Track sidecar: the listing loop of /download/album against a        *)
(* platform that holds the album's items in order, reports their number as *)
(* the total and answers every page request with pages of its own size,    *)
(* whatever limit was asked, followed by the track loop over the tracks    *)
(* retained.  The handler runs until it returns: a call in flight is       *)
(* answered and the loop takes its next turn.                              *)
(***************************************************************************)
\* the albums of the platform: up to MaxTracks items, each a track, a video
\* or an entry without an item
ItemAt(k) == { TrackItem(k), VideoItem(k), BareItem }
Catalogues ==
    UNION { { items \in [1..n -> UNION { ItemAt(k) : k \in 1..n }] :
                \A k \in 1..n : items[k] \in ItemAt(k) } : n \in 0..MaxTracks }
PageLimits == { 0, 1, 2, 100 }
Platforms == [items : Catalogues, limit : PageLimits]

Min(a, b) == IF a < b THEN a ELSE b

\* api.get_album_items(album_id, limit=100, offset=offset) as the platform
\* answers it: the items from offset on, a page of its own size
GetAlbumItems(platform, limit, offset) ==
    Page(SubSeq(platform.items, offset + 1,
                Min(offset + platform.limit, Len(platform.items))),
         platform.limit, Len(platform.items))

\* lines 385-396: the request has its token, the album is found, and the loop
\* starts at offset 0
ListingBegin(platform) ==
    /\ album = IdleAlbum
    /\ album' = [pc |-> "listing", tracks |-> << >>, offset |-> 0,
                 asked |-> FALSE, fetched |-> FALSE, platform |-> platform]
    /\ UNCHANGED <<fs, workers>>
    /\ UNCHANGED channelVars
    /\ UNCHANGED <<tidal_api, api_lock>>
    /\ api' = [api EXCEPT !["album"] = BuildApi("tok", "", "US", "album")]

\* line 397: the page at the current offset is requested
ListingAsk ==
    /\ album.pc = "listing"
    /\ ~album.asked
    /\ album' = [album EXCEPT !.asked = TRUE]
    /\ UNCHANGED <<fs, workers>>
    /\ UNCHANGED channelVars
    /\ UNCHANGED <<tidal_api, api_lock>>
    /\ UNCHANGED api

\* lines 397-403: the page arrives; its items with an isrc are retained, the
\* offset advances by the page's limit and the loop ends when the offset has
\* reached the page's total
ListingAnswer ==
    /\ album.pc = "listing"
    /\ album.asked
    /\ LET items == GetAlbumItems(album.platform, 100, album.offset)
           tracks == album.tracks \o IsrcItems(items.items)
           offset == album.offset + items.limit IN
       album' = IF offset >= items.totalNumberOfItems
                THEN [pc |-> "listed", tracks |-> tracks, offset |-> offset,
                      fetched |-> TRUE, platform |-> album.platform]
                ELSE [album EXCEPT !.tracks = tracks, !.offset = offset,
                                   !.asked = FALSE, !.fetched = TRUE]
    /\ UNCHANGED <<fs, workers>>
    /\ UNCHANGED channelVars
    /\ UNCHANGED <<tidal_api, api_lock>>
    /\ UNCHANGED api

\* the listing as the track loop receives it
ListingResponse == [op |-> "listing", tracks |-> album.tracks]

\* lines 405-423: results and errors start empty; without a track the loop
\* body never runs and the handler returns in the same turn; otherwise the
\* download of tracks[0] is handed to a worker thread with the request's
\* handle, which stays alive
ListingEnd ==
    /\ album.pc = "listed"
    /\ IF album.tracks = << >>
       THEN /\ album' = IdleAlbum
            /\ UNCHANGED workers
            /\ api' = [api EXCEPT !["album"] = NoApi]
       ELSE /\ workers["w1"] = IdleWorker
            /\ album' = [pc |-> "await", tracks |-> album.tracks, i |-> 0,
                         delayed |-> FALSE, delays |-> 0,
                         results |-> << >>, errors |-> << >>,
                         attempts |-> << [track_id |-> album.tracks[1].id,
                                          ended |-> "running"] >>]
            /\ workers' = [workers EXCEPT !["w1"] =
                             [pc |-> "fetch", owner |-> "album",
                              track |-> album.tracks[1].id]]
            /\ api' = [api EXCEPT !["w1"] = api["album"]]
    /\ UNCHANGED fs
    /\ UNCHANGED channelVars
    /\ UNCHANGED <<tidal_api, api_lock>>

ListingInit == TrackInit /\ fs = << >>

\* download_album from the listing loop to its response: the listing, then
\* the track loop (lines 408-431) and the summary (lines 433-442)
ListingNext ==
    \/ \E platform \in Platforms : ListingBegin(platform) /\ Silent
    \/ ListingAsk /\ Silent
    \/ ListingAnswer /\ Silent
    \/ ListingEnd /\ Observe(ListingResponse)
    \/ \E fetched \in AlbumFetches : DownloadFetch("w1", fetched) /\ Silent
    \/ DownloadOpenTmp("w1") /\ Silent
    \/ \E covers \in BOOLEAN : DownloadWriteTmp("w1", covers) /\ Silent
    \/ \E outcome \in { "ok", "fail_after" } : DownloadExtract("w1", outcome) /\ Silent
    \/ DownloadUnlink("w1") /\ Silent
    \/ DownloadMove("w1") /\ Silent
    \/ DownloadMetadata("w1", TRUE) /\ Silent
    \/ DownloadReturn("w1") /\ Silent
    \/ AlbumCollect("w1") /\ Silent
    \/ AlbumSleep /\ Silent
    \/ AlbumStartTrack("w1") /\ Silent
    \/ AlbumRespond /\ Silent
    \/ AlbumEnd /\ Observe(AlbumResponse)

ListingSpec == ListingInit /\ [][ListingNext]_vars /\ WF_vars(ListingNext)

(***************************************************************************)
(* The Channel sidecar: /stream requests of both users for both videos,    *)
(* one after another, while the clock advances.                            *)
(***************************************************************************)
PairsNext ==
    \/ \E u \in UserIds, v \in VideoIds :
         StreamBegin("s1", "stream", u, v, "HIGH", RangeNone) /\ Silent
    \/ ThreadCheck("s1") /\ Silent
    \/ \E info \in SpecInfos : ThreadExtract("s1", info) /\ Silent
    \/ StreamRespond("s1") /\ Observe(StreamRespondResponse("s1"))
    \/ \E d \in TickSteps : Tick(d) /\ Silent

PairsSpec == StreamInit /\ [][PairsNext]_vars

(***************************************************************************)
(* The Channel sidecar: users who signed in through the device-code flow   *)
(* with their own client, then /auth/restore with and without a client id  *)
(* and secret, and catalog requests.                                       *)
(***************************************************************************)
OwnClient == [client_id |-> "cid0", client_secret |-> "sec0"]
KeepRestoreBodies ==
    { [oauth_json |-> o, client_id |-> i, client_secret |-> x] :
        o \in { JsonText("tokB"), NotJson }, i \in ClientIds, x \in ClientSecrets }

KeepNext ==
    \/ \E u \in UserIds :
         LET ret == [k |-> "token", token |-> "tokA"] IN
         /\ AuthDeviceCodePoll(u, OwnClient, ret)
         /\ Observe(AuthDeviceCodePollResponse(u, OwnClient, ret))
    \/ \E u \in UserIds, body \in KeepRestoreBodies :
         /\ AuthRestore(u, body)
         /\ Observe([op |-> "restore", user |-> u, body |-> body,
                     response |-> AuthRestoreResponse(u, body)])
    \/ \E u \in UserIds : CatalogCall(u) /\ Observe(CatalogResponse(u, TRUE))
    \/ \E u \in UserIds : AuthClear(u) /\ Observe(AuthClearResponse(u))

KeepInit ==
    /\ oauthFile = [u \in UserIds |-> Absent]
    /\ credsFile = [u \in UserIds |-> Absent]
    /\ ChannelStart
    /\ TrackOff

KeepSpec == KeepInit /\ [][KeepNext]_vars

(***************************************************************************)
(* The Track sidecar: a /download/album of two tracks on one worker thread *)
(* while /download/track requests run on the other and /search requests    *)
(* are answered, each request with credentials of its own.                 *)
(***************************************************************************)
Credentials == { [access_token |-> "", user_id |-> "", country_code |-> "US"],
                 [access_token |-> "tokA", user_id |-> "u1", country_code |-> "US"],
                 [access_token |-> "tokB", user_id |-> "u2", country_code |-> "DE"] }

\* what api.get_search(req.query) does: it returns, raises an ApiError that
\* has a status or has none, or raises another exception
TidalSearchAnswers ==
    { [k |-> "ok"],
      [k |-> "api_error", has_status |-> TRUE, status |-> 404],
      [k |-> "api_error", has_status |-> TRUE, status |-> 429],
      [k |-> "api_error", has_status |-> FALSE],
      [k |-> "error"] }

\* @app.post("/search") of the Track sidecar, lines 295-343: 401 without a
\* token; otherwise a handle is built and searched with; an ApiError is
\* answered with e.status if hasattr(e, "status") else 500 (line 341), and
\* any other exception leaves the handler and is answered 500.  api: the
\* handle the request used
TidalSearchResponse(c, answer) ==
    IF c.access_token = ""
    THEN [op |-> "tidal_search", http |-> 401, api |-> NoApi]
    ELSE [op |-> "tidal_search",
          http |-> IF answer.k = "ok" THEN 200
                   ELSE IF answer.k = "api_error" /\ answer.has_status
                   THEN answer.status
                   ELSE 500,
          api |-> BuildApi(c.access_token, c.user_id, c.country_code, "search")]
TidalSearch(c, answer) ==
    /\ UNCHANGED <<fs, workers, album>>
    /\ UNCHANGED channelVars
    /\ UNCHANGED <<tidal_api, api_lock>>
    /\ UNCHANGED api

ApiPage == Page(<< TrackItem(1), TrackItem(2) >>, 100, 2)
ApiFetches(w) ==
    IF w = "w1" THEN { FetchOk(<< "a" >>, ".m4a", Bytes1), FetchError }
    ELSE { FetchOk(<< "b" >>, ".m4a", Bytes2) }

ApiInit == TrackInit /\ fs = << >>

ApiNext ==
    \/ \E c \in Credentials, answer \in TidalSearchAnswers :
         /\ TidalSearch(c, answer)
         /\ Observe(TidalSearchResponse(c, answer))
    \/ \E c \in Credentials :
         /\ DownloadTrackRequest("w2", 3, c.access_token, c.user_id, c.country_code)
         /\ Silent
    \/ \E c \in Credentials :
         /\ AlbumRequest(c.access_token, c.user_id, c.country_code, "ok")
         /\ Silent
    \/ AlbumFetchPage(ApiPage) /\ Silent
    \/ AlbumSleep /\ Silent
    \/ AlbumStartTrack("w1") /\ Silent
    \/ \E w \in Workers : \E fetched \in ApiFetches(w) :
         DownloadFetch(w, fetched) /\ Silent
    \/ \E w \in Workers : DownloadOpenTmp(w) /\ Silent
    \/ \E w \in Workers, covers \in BOOLEAN : DownloadWriteTmp(w, covers) /\ Silent
    \/ \E w \in Workers : DownloadMove(w) /\ Silent
    \/ \E w \in Workers : DownloadMetadata(w, TRUE) /\ Silent
    \/ \E w \in Workers : DownloadReturn(w) /\ Silent
    \/ AlbumCollect("w1") /\ Silent
    \/ AlbumRespond /\ Silent
    \/ AlbumEnd /\ Observe(AlbumResponse)
    \/ DownloadTrackEnd("w2") /\ Observe(DownloadTrackResponse("w2"))

ApiSpec == ApiInit /\ [][ApiNext]_vars

(***************************************************************************)
(* Properties.                                                             *)
(***************************************************************************)

\* C1: after a successful /auth/restore or /auth/clear (or device-code poll)
\* for user u, the first request that then looks u's handle up never gets a
\* handle that was cached before: it fails with 401, or it constructs a handle,
\* and that handle holds what the credential files on disk hold at that moment.
C1_FirstLookupBuildsAnew ==
    \A u \in UserIds :
        firstGet[u].k = "got" =>
            \/ firstGet[u].status = 401
            \/ /\ firstGet[u].status = 200
               /\ firstGet[u].built
               /\ firstGet[u].fromDisk

\* a handle was cached for u, /auth/restore replaced the credentials, and the
\* next lookup constructed a handle
C1_Witness ==
    \E u \in UserIds :
        /\ firstGet[u].k = "got"
        /\ firstGet[u].by = "restore"
        /\ firstGet[u].had
        /\ firstGet[u].status = 200
        /\ firstGet[u].built

\* a step that changes user u's credentials
CredentialChangeStep(u) ==
    \/ \E body \in RestoreBodies : RestoreStatus(body) = 200 /\ AuthRestore(u, body)
    \/ AuthClear(u)
    \/ \E req \in PollRequests, ret \in PollReturns :
         ret.k = "token" /\ AuthDeviceCodePoll(u, req, ret)

\* C2 as claimed: right after u's credentials change there is no cached handle
\* for u and no stream cache entry keyed by u.
C2_HandleAndEntriesInvalidated ==
    [][\A u \in UserIds :
         CredentialChangeStep(u) =>
            /\ ytmusic_instances'[u] = NoHandle
            /\ \A v \in VideoIds : stream_cache'[CacheKey(u, v)] = NoEntry]_vars

\* C2 as amended: right after u's credentials change there is no cached handle
\* for u; the stream cache is left exactly as it was, entries keyed by u
\* included.
C2_HandleInvalidatedCacheKept ==
    [][\A u \in UserIds :
         CredentialChangeStep(u) =>
            /\ ytmusic_instances'[u] = NoHandle
            /\ stream_cache' = stream_cache]_vars

\* u's credentials were just changed while a handle was cached for u, and an
\* entry keyed by u is still in the stream cache
C2_Witness ==
    \E u \in UserIds, v \in VideoIds :
        /\ firstGet[u].k = "await"
        /\ firstGet[u].had
        /\ ytmusic_instances[u] = NoHandle
        /\ stream_cache[CacheKey(u, v)] # NoEntry

\* the cache key of the request in slot s
SlotKey(s) == CacheKey(slots[s].user, slots[s].video)

\* C3: an entry of the stream cache resolved at time T (it expires at
\* T + 18000) is returned unchanged, without invoking the extractor and without
\* touching the cache, to a request that looks it up at any t with
\* T <= t <= T + 17999; a request that looks it up at t >= T + 18001 goes on
\* to the extractor, and an extraction that succeeds at time t replaces the
\* entry by the new result, which expires at t + 18000, and returns it.
C3_StreamCacheTTL ==
    [][\A s \in Slots :
         /\ ThreadCheck(s) =>
              LET cached == stream_cache[SlotKey(s)] IN
              cached # NoEntry =>
                LET T == cached.expires_at - 18000 IN
                /\ (T <= now /\ now <= T + 17999) =>
                      /\ slots'[s].pc = "ret"
                      /\ slots'[s].result = cached
                      /\ stream_cache' = stream_cache
                /\ now >= T + 18001 => slots'[s].pc = "extract"
         /\ \A info \in Infos :
              (ThreadExtract(s, info) /\ slots'[s].pc = "ret") =>
                 /\ stream_cache'[SlotKey(s)].expires_at = now + 18000
                 /\ stream_cache'[SlotKey(s)].url = StreamUrl(info)
                 /\ slots'[s].result = stream_cache'[SlotKey(s)]
                 /\ \A key \in CacheKeys \ { SlotKey(s) } :
                      stream_cache'[key] = stream_cache[key]]_vars

\* the entry resolved at 0 was served from the cache to a request that looked
\* it up at 17999, and a request that looked it up at 18001 or later has
\* replaced it
C3_Witness ==
    \E s \in Slots :
        /\ "response" \in DOMAIN event
        /\ event.response.http = 200
        /\ event.response.expires_at = 18000
        /\ event.checked_at = 17999
        /\ slots[s].pc = "ret"
        /\ slots[s].video = event.response.video
        /\ slots[s].checked_at >= 18001
        /\ slots[s].result.expires_at = now + 18000
        /\ stream_cache[SlotKey(s)] = slots[s].result

\* C10: a /proxy request that carries a Range header forwards the Range value
\* upstream unchanged, answers with the upstream status code, mirrors the
\* upstream Content-Range and Content-Length headers when present, and its
\* body, when the relay has ended, is exactly the upstream bytes, in order.
C10_RangeProxyRelaysUpstream ==
    \A s \in Slots :
        (/\ relay[s].pc \in { "done", "aborted" }
         /\ slots[s].range \notin { RangeNone, "" }) =>
            /\ relay[s].forwarded = [has_range |-> TRUE, Range |-> slots[s].range]
            /\ relay[s].status = relay[s].upstream.status
            /\ relay[s].headers.content_range = relay[s].upstream.content_range
            /\ relay[s].headers.content_length = relay[s].upstream.content_length
            /\ relay[s].body = relay[s].upstream.chunks

\* the workers that have computed their paths
Pathed(w) ==
    workers[w].pc \in { "write", "writing", "extract", "unlink", "move",
                        "metadata", "stat" }

\* C4: for every rendered template output, the sanitized relative path has no
\* empty segment and no ".." segment and does not begin with "/", the final
\* path and the temp path lie under the library root, and so does every file
\* on disk.
C4_FilesUnderLibraryRoot ==
    /\ \A w \in Workers :
         Pathed(w) =>
            LET relative_path == workers[w].relative_path
                segments == Split(relative_path) IN
            /\ relative_path # << >> =>
                  \A i \in DOMAIN segments :
                      segments[i] # << >> /\ segments[i] # << ".", "." >>
            /\ relative_path # << >> => Head(relative_path) # "/"
            /\ IsUnder(workers[w].file_path, MUSIC_PATH)
            /\ IsUnder(workers[w].tmp_path, MUSIC_PATH)
    /\ \A path \in DOMAIN fs : IsUnder(path, MUSIC_PATH)

\* C5: a .flac download whose extraction failed, before or after it wrote bytes
\* to the final path, ends in success; when it has finished, the final path
\* holds one file with all the downloaded bytes as they were downloaded, and no
\* temp file is left.
C5_FlacFallbackPublishesDownload ==
    \A w \in Workers :
        /\ (/\ workers[w].pc = "done"
            /\ workers[w].file_extension = ".flac"
            /\ workers[w].extract_failed # "no") =>
               /\ FileAt(fs, workers[w].file_path) # NoFile
               /\ FileAt(fs, workers[w].file_path).data = workers[w].stream_data
               /\ FileAt(fs, workers[w].file_path).whole
               /\ FileAt(fs, workers[w].file_path).form = "raw"
               /\ FileAt(fs, workers[w].tmp_path) = NoFile
               /\ workers[w].result.file_path = workers[w].file_path
        /\ workers[w].pc = "failed" => workers[w].extract_failed = "no"

\* a .flac download over an older copy has finished after its extraction
\* failed with bytes already written to the final path
C5_Witness ==
    /\ workers["w1"].pc = "done"
    /\ workers["w1"].file_extension = ".flac"
    /\ workers["w1"].extract_failed = "after"
    /\ workers["w1"].stream_data = Bytes1
    /\ workers["w1"].file_path = OlderCopy
    /\ fs[OlderCopy] = File(Bytes1, TRUE, "raw", TRUE)

\* the tracks of the listing whose attempt failed, in listing order
RECURSIVE FailedTracks(_, _)
FailedTracks(listing, attempts) ==
    IF listing = << >> \/ attempts = << >> THEN << >>
    ELSE (IF Head(attempts).ended = "failed"
          THEN << [track_id |-> Head(listing).id, title |-> Head(listing).title] >>
          ELSE << >>)
         \o FailedTracks(Tail(listing), Tail(attempts))

\* C6: the response of an album download whose listing has N tracks of which M
\* failed reports total = N, downloaded = N - M and failed = M, lists N - M
\* download results and M errors, one per failing track in listing order with
\* that track's id and title; downloaded + failed = total.
C6_AlbumAggregation ==
    (album.pc = "end" /\ album.http = 200) =>
        LET N == Len(album.listing)
            failing == FailedTracks(album.listing, album.attempts)
            M == Len(failing)
            body == album.body IN
        /\ Len(album.attempts) = N
        /\ body.total_tracks = N
        /\ body.downloaded = N - M
        /\ body.failed = M
        /\ Len(body.tracks) = N - M
        /\ Len(body.errors) = M
        /\ [j \in 1..M |-> [track_id |-> body.errors[j].track_id,
                            title |-> body.errors[j].title]] = failing
        /\ body.downloaded + body.failed = body.total_tracks

\* an album of three tracks of which the first and the last failed
C6_Witness ==
    /\ album.pc = "end"
    /\ album.http = 200
    /\ Len(album.listing) = 3
    /\ album.attempts[1].ended = "failed"
    /\ album.attempts[2].ended = "done"
    /\ album.attempts[3].ended = "failed"
    /\ album.body.failed = 2

\* the ids of a sequence of tracks or attempts
TrackIdsOf(listing) == [i \in DOMAIN listing |-> listing[i].id]
AttemptIdsOf(attempts) == [i \in DOMAIN attempts |-> attempts[i].track_id]

\* C7: every track of the listing is attempted exactly once, in listing order,
\* whatever way earlier tracks ended; the request fails with 400 or 500 only
\* when the album lookup or the track listing failed, before any track was
\* attempted, and never once a track has been attempted.
C7_EveryTrackAttemptedOnce ==
    /\ album.pc \in { "tracks", "await" } =>
          /\ Len(album.attempts) \in { album.i, album.i + 1 }
          /\ AttemptIdsOf(album.attempts) =
                SubSeq(TrackIdsOf(album.tracks), 1, Len(album.attempts))
    /\ album.pc = "end" =>
          /\ album.http \in { 200, 400, 401, 500 }
          /\ album.http = 200 =>
                AttemptIdsOf(album.attempts) = TrackIdsOf(album.listing)
          /\ album.http \in { 400, 500 } =>
                album.stage \in { "lookup", "listing" } /\ album.attempts = << >>
          /\ album.attempts # << >> => album.http = 200

\* an album download answered 200 although its first track raised a platform
\* API error, and the track after it was still downloaded
C7_Witness ==
    /\ album.pc = "end"
    /\ album.http = 200
    /\ Len(album.listing) >= 2
    /\ album.attempts[1].ended = "failed"
    /\ album.body.errors[1].error = "api_error"
    /\ album.attempts[2].ended = "done"

\* C8: the response of a device-code poll by the error the token exchange
\* reports: invalid_grant (returned, or raised without authorization_pending in
\* the text) gives status error with the expired-or-used message;
\* authorization_pending (returned or raised) gives status pending with that
\* code; a returned slow_down gives pending with that code; every other
\* returned table code gives status error with its table message; a returned
\* code outside the table gives status error with the generic message naming
\* the code.
C8_PollErrorMapping ==
    event.op = "poll" =>
        LET ret == event.ret
            out == event.out
            Returned(code) == ret.k = "error" /\ ret.error = code
            Raised(code) == ret.k = "raise" /\ Contains(Lower(ret.text), Text(code))
            Error(msg) == out = [http |-> 200, status |-> "error", error |-> msg]
            Pending(code) == out = [http |-> 200, status |-> "pending", error |-> code]
        IN
        /\ Returned("invalid_grant") =>
             Error("The sign-in code has expired or was already used. Please start over.")
        /\ (Raised("invalid_grant") /\ ~Raised("authorization_pending")) =>
             Error("The sign-in code has expired or was already used. Please start over.")
        /\ (Returned("authorization_pending") \/ Raised("authorization_pending")) =>
             Pending("authorization_pending")
        /\ Returned("slow_down") => Pending("slow_down")
        /\ Returned("expired_token") =>
             Error("The sign-in code has expired. Please start over.")
        /\ Returned("access_denied") =>
             Error("Access was denied. Please try again and click 'Allow' on the Google page.")
        /\ Returned("invalid_client") =>
             Error("OAuth client credentials are invalid. Please ask your admin to check the Client ID and Secret.")
        /\ Returned("server_error") =>
             Error("Authorization failed (server_error). Please try again.")

\* a poll whose token exchange returned invalid_grant was answered
C8_Witness ==
    /\ event.op = "poll"
    /\ event.ret = [k |-> "error", error |-> "invalid_grant"]
    /\ event.out.status = "error"

\* C9: a device-code poll for user u changes sidecar state only on success.  On
\* success u's credential file holds the returned token JSON, u's
\* client-credential file holds the supplied client id and secret, and no
\* handle is cached for u; on any other outcome no credential file,
\* client-credential file, cached handle or stream cache entry changes.
C9_PollChangesStateOnlyOnSuccess ==
    [][\A ret \in PollReturns :
         LET success == PollOutcome(ret).status = "success" IN
         \A u \in UserIds, req \in PollRequests :
            AuthDeviceCodePoll(u, req, ret) =>
               IF success
               THEN /\ oauthFile'[u] = PollOutcome(ret).oauth_json
                    /\ JsonLoads(oauthFile'[u]) = [ok |-> TRUE, doc |-> ret.token]
                    /\ JsonLoads(credsFile'[u]) =
                         [ok |-> TRUE, doc |-> [client_id |-> req.client_id,
                                                client_secret |-> req.client_secret]]
                    /\ ytmusic_instances'[u] = NoHandle
               ELSE UNCHANGED <<oauthFile, credsFile, ytmusic_instances,
                                stream_cache>>]_vars

\* a poll for u just succeeded while a handle was cached for u, the other
\* user's handle is still cached and the stream cache holds an entry
C9_Witness ==
    \E u \in UserIds, w \in UserIds, key \in CacheKeys :
        /\ w # u
        /\ firstGet[u] = [k |-> "await", by |-> "poll", had |-> TRUE]
        /\ oauthFile[u] = JsonText("tokA")
        /\ credsFile[u] = JsonText(CredsDoc("cid1", "sec1"))
        /\ ytmusic_instances[u] = NoHandle
        /\ ytmusic_instances[w] # NoHandle
        /\ stream_cache[key] # NoEntry

\* C11: the quality-to-format-selector mapping is total and deterministic: LOW,
\* MEDIUM, HIGH and LOSSLESS each map to their one selector, and every other
\* quality value maps to the selector of HIGH; the extractor is always invoked
\* with the selector of the request's quality.
C11_QualitySelector ==
    event.op = "extract" =>
        /\ event.quality = "LOW"      => event.format = "ba[abr<=64]/worstaudio/ba"
        /\ event.quality = "MEDIUM"   => event.format = "ba[abr<=128]/ba[abr<=192]/ba"
        /\ event.quality = "HIGH"     => event.format = "ba[abr<=256]/ba"
        /\ event.quality = "LOSSLESS" => event.format = "ba/bestaudio"
        /\ event.quality \notin { "LOW", "MEDIUM", "HIGH", "LOSSLESS" }
              => event.format = "ba[abr<=256]/ba"

\* the extractor was invoked for a request of an unknown quality, and the
\* result was stored
C11_Witness ==
    /\ event.op = "extract"
    /\ event.quality = "ULTRA"
    /\ event.format = "ba[abr<=256]/ba"
    /\ slots["s1"].pc = "ret"
    /\ slots["s1"].quality = "ULTRA"
    /\ stream_cache[CacheKey(slots["s1"].user, slots["s1"].video)] = slots["s1"].result

\* the characters a sanitized segment must not contain, and the characters
\* stripped from its ends
Forbidden == { "<", ">", ":", "\"", "/", "\\", "|", "?", "*" }
Stripped == { ".", " " }
Clean(text) ==
    /\ \A i \in DOMAIN text : text[i] \notin Forbidden
    /\ text # << >> => text[1] \notin Stripped /\ text[Len(text)] \notin Stripped

\* C12: sanitizing a segment replaces every occurrence of each character of
\* <>:"/\|?* with "_", leaves every other character in place, then strips the
\* leading and trailing dots and spaces: the result contains none of those
\* characters, does not start or end with "." or " ", and sanitizing the
\* result again returns it unchanged.
C12_SanitizeSegment ==
    event.op = "sanitize" =>
        LET name == event.name
            out == event.out
            n == Len(name)
            replaced == [i \in 1..n |-> IF name[i] \in Forbidden THEN "_" ELSE name[i]]
        IN /\ Clean(out)
           /\ \E lo \in 1..(n + 1), hi \in 0..n :
                 /\ out = SubSeq(replaced, lo, hi)
                 /\ \A i \in 1..(lo - 1) : replaced[i] \in Stripped
                 /\ \A i \in (hi + 1)..n : replaced[i] \in Stripped
           /\ Clean(name) => out = name
           /\ SanitizeResponse(out).out = out

\* a segment with a forbidden character and leading and trailing dots and
\* spaces was sanitized, and the result was sanitized again
C12_Witness ==
    \/ /\ event.op = "sanitize"
       /\ event.name = << " ", "?", "." >>
       /\ event.out = << "_" >>
    \/ /\ event.op = "sanitize"
       /\ event.name = << "_", " ", "_" >>
       /\ event.out = event.name

\* C13 as stated: sanitizing "My: Song? " yields "My_ Song__".
C13_ExampleTwoUnderscores ==
    (event.op = "sanitize" /\ event.name = ExampleSegment)
        => event.out = << "M", "y", "_", " ", "S", "o", "n", "g", "_", "_" >>

\* C13, as the code has it: sanitizing "My: Song? " yields "My_ Song_": the
\* colon and the question mark become "_" and the trailing space is stripped.
C13_ExampleOneUnderscore ==
    (event.op = "sanitize" /\ event.name = ExampleSegment)
        => event.out = << "M", "y", "_", " ", "S", "o", "n", "g", "_" >>

\* "My: Song? " was sanitized
C13_Witness ==
    /\ event.op = "sanitize"
    /\ event.name = ExampleSegment
    /\ Len(event.out) = 9



\* the files of user u cannot give a handle: the credential file is not JSON or
\* not an OAuth token document, or the client-credential file is not JSON or
\* lacks a key
Unusable(u) ==
    \/ oauthFile[u] \in { NotJson, JsonText(JunkDoc) }
    \/ credsFile[u] \in { NotJson, JsonText(NoKeysDoc) }

\* C14: obtaining a handle for a user u with no cached handle fails with 401
\* "not authenticated" when u's credential file is missing, and with 401 "OAuth
\* credentials invalid" when the file exists but cannot be read, parsed or used
\* (an unreadable or incomplete client-credential file included); in both cases
\* no handle is added to the cache and no file is changed.
C14_NoHandleNoFiles401 ==
    [][\A u \in UserIds, platform_ok \in BOOLEAN :
         ( /\ CatalogCall(u)
           /\ event' = CatalogResponse(u, platform_ok)
           /\ ytmusic_instances[u] = NoHandle
           /\ oauthFile[u] = Absent \/ Unusable(u) )
         => /\ event'.http = 401
            /\ event'.detail =
                 IF oauthFile[u] = Absent
                 THEN "Not authenticated. Please set up OAuth first."
                 ELSE "OAuth credentials invalid. Please re-authenticate."
            /\ UNCHANGED <<oauthFile, credsFile, ytmusic_instances, stream_cache>>]_vars

\* a catalog request just failed with "OAuth credentials invalid" for a user
\* whose token file is good and whose client-credential file lacks its keys,
\* while the other user, whose credential file is missing, has been refused too
C14_Witness ==
    \E u \in UserIds, w \in UserIds :
        /\ event = [op |-> "catalog", user |-> u, http |-> 401,
                    detail |-> "OAuth credentials invalid. Please re-authenticate."]
        /\ oauthFile[u] = JsonText("tokA")
        /\ credsFile[u] = JsonText(NoKeysDoc)
        /\ ytmusic_instances[u] = NoHandle
        /\ oauthFile[w] = Absent
        /\ ytmusic_instances[w] = NoHandle

\* C16: /auth/restore with a missing, empty or unparseable oauth_json returns
\* 400 and leaves every file and cached handle unchanged; with a parseable blob
\* it writes the blob as u's credential file, writes the client-credential file
\* only when both the client id and the client secret are supplied, and removes
\* u's cached handle.
C16_RestoreValidatesThenWrites ==
    [][\A u \in UserIds, body \in RestoreBodies :
         (AuthRestore(u, body) /\ event' = AuthRestoreResponse(u, body))
         => IF body.oauth_json \in { Missing, EmptyStr, FalsyNonString,
                                     NotJson, NonString }
            THEN /\ event'.http = 400
                 /\ UNCHANGED <<oauthFile, credsFile, ytmusic_instances>>
            ELSE /\ event'.http = 200
                 /\ oauthFile' = [oauthFile EXCEPT ![u] = body.oauth_json]
                 /\ credsFile' =
                      IF body.client_id # "" /\ body.client_secret # ""
                      THEN [credsFile EXCEPT ![u] =
                              JsonText(CredsDoc(body.client_id, body.client_secret))]
                      ELSE credsFile
                 /\ ytmusic_instances' = [ytmusic_instances EXCEPT ![u] = NoHandle]]_vars

\* user u's credentials were cleared, and not restored or obtained by a poll
\* since
Cleared(u) == firstGet[u].k # "none" /\ firstGet[u].by = "clear"

\* C15: after /auth/clear for u neither of u's files exists and no handle is
\* cached for u, and every catalog, /stream or /proxy request for u that starts
\* after the clear fails with 401, until a later /auth/restore or successful
\* poll for u.
C15_ClearedUserIsRefused ==
    [][\A u \in UserIds :
         Cleared(u) =>
            /\ oauthFile[u] = Absent
            /\ credsFile[u] = Absent
            /\ ytmusic_instances[u] = NoHandle
            /\ (CatalogCall(u) /\ event' = CatalogResponse(u, TRUE))
                  => event'.http = 401 /\ ytmusic_instances' = ytmusic_instances
            /\ \A kind \in { "stream", "proxy" } :
                  ( /\ StreamBegin("s1", kind, u, << "c" >>, "HIGH", RangeNone)
                    /\ event' = StreamBeginResponse(kind, u) )
                  => /\ event'.http = 401
                     /\ slots' = slots
                     /\ ytmusic_instances' = ytmusic_instances]_vars

\* a /proxy request of a cleared user was just refused with 401, after a
\* catalog request of the same user had been refused; the stream cache still
\* holds the entry resolved for the user before the clear, and the other user
\* still has a handle
C15_Witness ==
    \E u \in UserIds, w \in UserIds :
        /\ w # u
        /\ event = [op |-> "proxy", user |-> u, http |-> 401]
        /\ firstGet[u].k = "got"
        /\ firstGet[u].by = "clear"
        /\ firstGet[u].had
        /\ stream_cache[CacheKey(u, << "c" >>)] # NoEntry
        /\ slots["s1"] = IdleSlot
        /\ ytmusic_instances[w] # NoHandle

\* the kind of a platform result, and the results of the four kinds /search
\* passes on
\* the kind of a platform result: its resultType, or without one its category
\* in lower case; "other" when that is none of the four kinds
FourKinds == { "song", "album", "artist", "video" }
KindOf(r) ==
    LET kind == IF r.resultType # << >> THEN r.resultType ELSE Lower(r.category) IN
    IF \E k \in FourKinds : kind = Text(k)
    THEN CHOOSE k \in FourKinds : kind = Text(k)
    ELSE "other"
IsOfFourKinds(r) == KindOf(r) \in FourKinds

\* C17: a platform result list with one entry of each of the four kinds gives
\* exactly four items in input order; the number of items and `total` equal the
\* number of entries of the four kinds, the others being omitted; and for song,
\* album and video items the primary artist is the first name of the full artist
\* list, or "Unknown" when the list is empty.
C17_SearchNormalization ==
    (event.op = "search" /\ event.response.http = 200)
    => LET raw == event.platform.results
           items == event.response.results
           kept == SelectSeq(raw, IsOfFourKinds)
       IN /\ Len(items) = Cardinality({ i \in DOMAIN raw : IsOfFourKinds(raw[i]) })
          /\ event.response.total = Len(items)
          /\ Len(items) = Len(kept)
          /\ \A j \in DOMAIN items :
                /\ items[j].type = KindOf(kept[j])
                /\ items[j].id = kept[j].id
                /\ items[j].type \in { "song", "album", "video" } =>
                      /\ items[j].artists = kept[j].artists
                      /\ items[j].artist = IF items[j].artists = << >> THEN "Unknown"
                                           ELSE items[j].artists[1]
          /\ ( /\ Len(raw) = 4
               /\ \A kind \in FourKinds :
                     Cardinality({ i \in DOMAIN raw : KindOf(raw[i]) = kind }) = 1 )
             => /\ Len(items) = 4
                /\ \A i \in 1..4 : items[i].type = KindOf(raw[i]) /\ items[i].id = raw[i].id

\* a search returned four results, one of each kind, the song by two artists,
\* and a second one returned a playlist between a video without artists and an
\* album
C17_Witness ==
    /\ event.op = "search"
    /\ event.response.http = 200
    /\ \/ /\ event.response.total = 4
          /\ event.platform.results =
               << SearchResult(Text("video"), Text("Videos"), "e5", << >>, ""),
                  SearchResult(Text("song"), Text("Songs"), "e1", << "x", "y" >>, ""),
                  SearchResult(Text("artist"), Text("Artists"), "e4", << >>, "z"),
                  SearchResult(Text("album"), Text("Albums"), "e3", << "y" >>, "") >>
          /\ event.response.results[2].artist = "x"
          /\ event.response.results[1].artist = "Unknown"
       \/ /\ event.response.total = 2
          /\ event.platform.results =
               << SearchResult(Text("video"), Text("Videos"), "e5", << >>, ""),
                  SearchResult(Text("playlist"), Text("Community playlists"), "e6", << >>, ""),
                  SearchResult(Text("album"), Text("Albums"), "e3", << "y" >>, "") >>

\* what the extractor gives when the resolution fails: it raises, returns
\* nothing, or returns an info without a URL whose formats hold no audio-only
\* format, or whose best audio-only format has no URL
FailedResolutions ==
    { [k |-> "raise"], [k |-> "none"],
      Info("", << >>,
           << Fmt("none", "avc1", 0, "fv"), Fmt("mp4a", "avc1", 128, "fav") >>),
      Info("", Text("flac"),
           << Fmt("opus", "none", 64, "f64"), Fmt("opus", "none", 128, "") >>) }

\* C18: when the resolution fails on a cache miss (the extractor raises, returns
\* nothing, or no URL is found directly or through the format fallback) the
\* request fails with 502 and the stream cache is left exactly as it was: no
\* entry is added and an expired entry for the key is neither replaced nor
\* removed.
C18_FailedResolutionLeavesCache ==
    [][/\ \A info \in FailedResolutions :
            ThreadExtract("s1", info)
            => stream_cache' = stream_cache /\ slots'["s1"].pc = "fail"
       /\ (StreamRespond("s1") /\ slots["s1"].pc = "fail")
            => event'.response.http = 502 /\ stream_cache' = stream_cache]_vars

\* a request was answered 502 after its lookup found the key's entry expired,
\* and that entry is still in the cache
C18_Witness ==
    /\ "response" \in DOMAIN event
    /\ event.response.http = 502
    /\ LET entry == stream_cache[CacheKey(event.response.user, event.response.video)] IN
       /\ entry # NoEntry
       /\ entry.expires_at <= event.checked_at
    /\ slots["s1"] = IdleSlot

\* C19: after the shutdown hook ran, the handle cache is empty and the stream
\* cache holds no entry whose expiry is at or before the shutdown time, while
\* the entries whose expiry lies in the future remain, unchanged.
C19_ShutdownCleansCaches ==
    [][(Shutdown /\ event' = ShutdownResponse)
       => /\ \A u \in UserIds : ytmusic_instances'[u] = NoHandle
          /\ \A key \in CacheKeys :
                /\ (stream_cache[key] # NoEntry /\ stream_cache[key].expires_at > now)
                      => stream_cache'[key] = stream_cache[key]
                /\ stream_cache'[key] # NoEntry
                      => stream_cache'[key].expires_at > now'
          /\ now' = now]_vars

\* the process was shut down at the very second the older of two entries
\* expired: that entry was removed, the other one, expiring a second later, is
\* still there, and no handle is cached
C19_Witness ==
    /\ event = [op |-> "shutdown", cleaned |-> 1]
    /\ now = STREAM_CACHE_TTL
    /\ \E key \in CacheKeys, gone \in CacheKeys :
          /\ stream_cache[gone] = NoEntry
          /\ stream_cache[key] # NoEntry
          /\ stream_cache[key].expires_at = now + 1
    /\ \A u \in UserIds : ytmusic_instances[u] = NoHandle /\ firstGet[u].k = "none"

\* C20 as stated: two concurrent first requests for the same uncached user each
\* find no cached handle and each build one: of two requests in flight at once
\* for one user, if one built a handle then so did the other.
C20_ConcurrentFirstRequestsBothBuild ==
    \A s \in Slots, t \in Slots :
        ( /\ s # t
          /\ RequestLog[s].k = "request"
          /\ RequestLog[t].k = "request"
          /\ RequestLog[s].user = RequestLog[t].user
          /\ RequestLog[s].loaded )
        => RequestLog[t].loaded

\* C20, as the code has it: no such race.  The lookup and the construction of
\* a handle are one uninterrupted step, so a request builds a handle exactly
\* when none is cached for its user at that moment, whatever other requests
\* are in flight, and a handle in the map is never overwritten: one is stored
\* only where none was.
C20_HandleBuiltOnlyWhenNoneCached ==
    [][\A u \in UserIds :
         /\ ytmusic_instances'[u] \notin { ytmusic_instances[u], NoHandle }
               => ytmusic_instances[u] = NoHandle
         /\ \A s \in Slots :
               ( /\ StreamBegin(s, "stream", u, << "c" >>, "HIGH", RangeNone)
                 /\ event' = LoadedLog(s, u) )
               => /\ event'.log[s].loaded <=> ytmusic_instances[u] = NoHandle
                  /\ ytmusic_instances[u] # NoHandle
                        => ytmusic_instances' = ytmusic_instances]_vars

\* two requests for one user are in flight at once, both begun before either
\* worker thread looked at the stream cache; the first found no handle and
\* built one, the second found that handle
C20_Witness ==
    \E u \in UserIds :
        /\ event.op = "requests"
        /\ event.log["s1"] = [k |-> "request", user |-> u, loaded |-> TRUE]
        /\ event.log["s2"] = [k |-> "request", user |-> u, loaded |-> FALSE]
        /\ slots["s1"].pc = "check"
        /\ slots["s2"].pc = "check"
        /\ slots["s1"].user = u
        /\ slots["s2"].user = u
        /\ ytmusic_instances[u] # NoHandle

\* C21: two concurrent first resolutions of one stream cache key can both miss
\* the cache and both invoke the extractor; in every interleaving each caller
\* receives the entry it resolved itself, and afterwards the cache holds one
\* entry for the key, the entry of whichever resolution wrote last.
C21_EachResolutionReturnsItsOwn ==
    [][\A s \in Slots, info \in ResolveInfos :
         (ThreadExtract(s, info) /\ info.k = "info")
         => LET own == [k |-> "entry", url |-> info.url, video |-> slots[s].video,
                        format |-> IF slots[s].quality = "LOW"
                                   THEN "ba[abr<=64]/worstaudio/ba"
                                   ELSE "ba[abr<=256]/ba",
                        acodec |-> info.acodec,
                        expires_at |-> now + 18000] IN
            /\ slots'[s].pc = "ret"
            /\ slots'[s].result = own
            /\ stream_cache'[SlotKey(s)] = own
            /\ \A t \in Slots \ { s } : slots'[t] = slots[t]
            /\ \A key \in CacheKeys \ { SlotKey(s) } :
                  stream_cache'[key] = stream_cache[key]]_vars

\* both requests missed the empty cache and both resolved: each holds its own
\* entry, the two differ, and the cache holds the one written last (s2's)
C21_Witness ==
    /\ slots["s1"].pc = "ret"
    /\ slots["s2"].pc = "ret"
    /\ SlotKey("s1") = SlotKey("s2")
    /\ slots["s1"].checked_at = 0
    /\ slots["s2"].checked_at = 0
    /\ slots["s1"].result.url = "cdn"
    /\ slots["s1"].result.expires_at = STREAM_CACHE_TTL + 1
    /\ slots["s2"].result.url = "cdn2"
    /\ slots["s2"].result.expires_at = STREAM_CACHE_TTL + 2
    /\ stream_cache[SlotKey("s1")] = slots["s2"].result

\* worker w has a target path: its download is between the fetch and the
\* final stat
Moving(w) == workers[w].pc \in { "write", "writing", "extract", "unlink", "move",
                                 "metadata", "stat" }

\* C22: two concurrent track downloads that resolve to the identical target
\* path use the same temp path and race on the rename: a download's move that
\* finds the temp file gone fails and changes nothing; otherwise it publishes
\* whatever the temp file holds at that moment, the bytes the other download
\* is still writing included.
C22_SameTargetRacesOnRename ==
    [][\A w \in Workers, v \in Workers :
         (w # v /\ DownloadMove(w))
         => /\ ( /\ Moving(v)
                 /\ RealPath(workers[v].file_path) = RealPath(workers[w].file_path) )
                  => RealPath(workers[v].tmp_path) = RealPath(workers[w].tmp_path)
            /\ IF FileAt(fs, workers[w].tmp_path) # NoFile
               THEN /\ workers'[w].pc = "metadata"
                    /\ FileAt(fs', workers[w].file_path) = FileAt(fs, workers[w].tmp_path)
                    /\ FileAt(fs', workers[w].tmp_path) = NoFile
               ELSE /\ workers'[w].pc = "failed"
                    /\ workers'[w].raised = "error"
                    /\ fs' = fs]_vars

\* the first download moved the temp file after the second had opened it and
\* before it wrote, and reported as its own the file the second had emptied
\* and still held open; the second then wrote its bytes to that file, now at
\* the final path, found the temp file gone and failed
C22_Witness ==
    /\ workers["w1"].pc = "done"
    /\ workers["w1"].stream_data = Bytes1
    /\ workers["w1"].result.file_size =
         [File(<< >>, TRUE, "raw", FALSE) EXCEPT !.fds = { "w2" }]
    /\ workers["w2"].pc = "failed"
    /\ workers["w2"].raised = "error"
    /\ workers["w2"].extract_failed = "no"
    /\ fs = PutFile(<< >>, workers["w1"].file_path, File(Bytes2, TRUE, "raw", FALSE))

\* max(0, n)
AtLeastZero(n) == IF n > 0 THEN n ELSE 0

\* the attempts before the last have all ended
EarlierAttemptsEnded(attempts) ==
    \A k \in 1..(Len(attempts) - 1) : attempts[k].ended # "running"

\* C23: within one album download the track downloads run one after another
\* and the rate-limit delay comes exactly once between the end of an attempt
\* and the start of the next, whether that attempt failed or not, and never
\* before the first: while attempt n runs n-1 delays have occurred, and an
\* album of N tracks ends after N attempts and max(0, N-1) delays.
C23_OneDelayBetweenAttempts ==
    /\ album.pc = "await" =>
         /\ Len(album.attempts) = album.i + 1
         /\ album.attempts[album.i + 1].ended = "running"
         /\ EarlierAttemptsEnded(album.attempts)
         /\ album.delays = album.i
         /\ workers["w1"].owner = "album"
         /\ workers["w2"] = IdleWorker
    /\ album.pc = "tracks" =>
         /\ Len(album.attempts) = album.i
         /\ \A k \in 1..album.i : album.attempts[k].ended # "running"
         /\ workers["w1"] = IdleWorker
         /\ album.delays = IF album.delayed THEN album.i
                           ELSE AtLeastZero(album.i - 1)
         /\ album.delayed => album.i > 0
    /\ (album.pc = "end" /\ album.stage = "tracks") =>
         /\ Len(album.attempts) = Len(album.listing)
         /\ album.delays = AtLeastZero(Len(album.listing) - 1)

\* an album of three tracks is through: the second attempt failed, and two
\* delays occurred
C23_Witness ==
    /\ album.pc = "end"
    /\ album.stage = "tracks"
    /\ Len(album.listing) = 3
    /\ album.attempts[2].ended = "failed"
    /\ album.attempts[3].ended = "done"
    /\ album.delays = 2

\* C24: the listing loop of an album download terminates for every total the
\* platform reports and every page size it returns, a page size of 0
\* included: a listing that has started is eventually complete, at least one
\* page was fetched, and the tracks retained are the items with an isrc of
\* the album, in order, each once.
C24_ListingLoopTerminates ==
    /\ (album.pc = "listing") ~> (album.pc = "listed")
    /\ [](album.pc = "listed" =>
            /\ album.fetched
            /\ album.tracks = IsrcItems(album.platform.items))

\* C25: a cache hit does not depend on the requested quality: a request for
\* (u, v) whose lookup finds an entry that has not expired returns that entry,
\* whatever quality it asks for and whatever quality the entry was resolved
\* under, without invoking the extractor and without touching the cache.
C25_HitIgnoresQuality ==
    [][\A s \in Slots :
         LET cached == stream_cache[CacheKey(slots[s].user, slots[s].video)] IN
         (ThreadCheck(s) /\ cached # NoEntry /\ cached.expires_at > now)
         => /\ slots'[s].pc = "ret"
            /\ slots'[s].result = cached
            /\ slots'[s].quality = slots[s].quality
            /\ stream_cache' = stream_cache]_vars

\* a HIGH request for a video resolved under LOW a second before the entry
\* expires has been given the LOW entry
C25_Witness ==
    /\ slots["s1"].pc = "ret"
    /\ slots["s1"].quality = "HIGH"
    /\ slots["s1"].result = stream_cache[CacheKey(slots["s1"].user, slots["s1"].video)]
    /\ slots["s1"].result.video = slots["s1"].video
    /\ slots["s1"].result.format = FormatMap("LOW")
    /\ slots["s1"].checked_at = slots["s1"].result.expires_at - 1

\* C26: distinct (user_id, video_id) pairs never share a stream cache entry,
\* ids with ':' in them included: the entry a request returns was resolved
\* for the video that request names.
C26_PairsNeverShareEntry ==
    \A s \in Slots :
        slots[s].pc = "ret" => slots[s].result.video = slots[s].video

\* what the sidecar holds for user u: the two files, the cached handle
Held(u) == << oauthFile[u], credsFile[u], ytmusic_instances[u] >>

\* C27: credential operations are user-scoped: /auth/restore, /auth/clear and
\* /auth/device-code/poll for u leave the credential file, the
\* client-credential file and the cached handle of every other user, whose
\* files have other names, and every stream cache entry as they were.
C27_CredentialOpsAreUserScoped ==
    [][\A u \in UserIds :
         (\/ AuthClear(u)
          \/ \E body \in ClearRestoreBodies : AuthRestore(u, body)
          \/ \E req \in SpecPollRequests, ret \in ClearPollReturns :
               AuthDeviceCodePoll(u, req, ret))
         => /\ \A other \in UserIds \ { u } :
                 /\ Held(other)' = Held(other)
                 /\ { OauthFile(other), ClientCredsFile(other) }
                       \cap { OauthFile(u), ClientCredsFile(u) } = { }
            /\ stream_cache' = stream_cache]_vars

\* the credentials of user a were just cleared while user a:b holds both
\* files, a cached handle and a resolved stream
C27_Witness ==
    /\ event = AuthClearResponse(<< "a" >>)
    /\ oauthFile[<< "a" >>] = Absent
    /\ oauthFile[<< "a", ":", "b" >>] # Absent
    /\ credsFile[<< "a", ":", "b" >>] # Absent
    /\ ytmusic_instances[<< "a", ":", "b" >>] # NoHandle
    /\ stream_cache[CacheKey(<< "a", ":", "b" >>, << "c" >>)] # NoEntry

\* C28: /stream and /proxy check authentication before touching the stream
\* cache: a request of a user with no cached handle and no usable credential
\* file is answered 401 and ends there, with no worker thread started (no
\* cache lookup, no extractor call, no URL returned), also when the cache
\* holds an unexpired entry for the request's key.
C28_AuthBeforeStreamCache ==
    [][\A u \in UserIds, kind \in { "stream", "proxy" } :
         ( /\ StreamBegin("s1", kind, u, << "c" >>, "HIGH", RangeNone)
           /\ event' = StreamBeginResponse(kind, u)
           /\ ytmusic_instances[u] = NoHandle
           /\ oauthFile[u] = Absent \/ Unusable(u) )
         => /\ event' = [op |-> kind, user |-> u, http |-> 401]
            /\ slots'["s1"] = IdleSlot
            /\ relay' = relay
            /\ stream_cache' = stream_cache
            /\ ytmusic_instances' = ytmusic_instances]_vars

\* a /stream request was just refused with 401 for a user whose restored
\* credential file cannot be used, while the cache holds the unexpired entry
\* resolved for that user and video before the restore
C28_Witness ==
    \E u \in UserIds :
        /\ event = [op |-> "stream", user |-> u, http |-> 401]
        /\ oauthFile[u] = JsonText(JunkDoc)
        /\ ytmusic_instances[u] = NoHandle
        /\ stream_cache[CacheKey(u, << "c" >>)] # NoEntry
        /\ stream_cache[CacheKey(u, << "c" >>)].expires_at > now
        /\ slots["s1"] = IdleSlot

\* C29: in the range branch of /proxy the upstream HTTP client stays open
\* until the last body chunk has been relayed: the client is open while
\* chunks remain, no chunk is relayed after the client was closed, and the
\* relay ends with the whole body relayed and the upstream response closed.
C29_RangeClientOpenUntilLastChunk ==
    \A s \in Slots :
        (relay[s] # NoRelay /\ relay[s].branch = "range") =>
            /\ (/\ relay[s].pc = "relaying"
                /\ Len(relay[s].body) < Len(relay[s].upstream.chunks))
                  => relay[s].client_open
            /\ ~relay[s].closed_before_chunk
            /\ relay[s].pc # "aborted"
            /\ relay[s].pc = "done"
                  => /\ relay[s].body = relay[s].upstream.chunks
                     /\ ~relay[s].upstream_open

\* C30: /auth/restore for u that omits the client id or the client secret
\* leaves u's client-credential file as it was, and the next handle built for
\* u is constructed from the newly restored credential file together with the
\* client id and secret stored before.
C30_RestoreKeepsClientCreds ==
    [][\A u \in UserIds :
         /\ \A body \in KeepRestoreBodies :
              ( /\ AuthRestore(u, body)
                /\ event'.op = "restore" /\ event'.user = u /\ event'.body = body
                /\ event'.response.http = 200
                /\ body.client_id = "" \/ body.client_secret = "" )
              => /\ credsFile'[u] = credsFile[u]
                 /\ oauthFile'[u] = body.oauth_json
                 /\ ytmusic_instances'[u] = NoHandle
         /\ ( /\ CatalogCall(u)
              /\ ytmusic_instances[u] = NoHandle
              /\ ytmusic_instances'[u] # NoHandle )
            => /\ oauthFile[u] = JsonText(ytmusic_instances'[u].oauth)
               /\ IF credsFile[u] = Absent
                  THEN ytmusic_instances'[u].creds = NoCreds
                  ELSE /\ credsFile[u] =
                            JsonText(CredsDoc(ytmusic_instances'[u].creds.client_id,
                                              ytmusic_instances'[u].creds.client_secret))]_vars

\* the handle built for a user after a restore without both a client id and a
\* secret holds the restored token and the client of the earlier sign-in
C30_Witness ==
    \E u \in UserIds :
        /\ event = [op |-> "catalog", user |-> u, http |-> 200, detail |-> ""]
        /\ firstGet[u].k = "got"
        /\ firstGet[u].by = "restore"
        /\ ytmusic_instances[u] =
             [k |-> "yt",
              creds |-> [k |-> "creds", client_id |-> "cid0", client_secret |-> "sec0"],
              oauth |-> "tokB"]
        /\ credsFile[u] = JsonText(CredsDoc("cid0", "sec0"))
        /\ oauthFile[u] = JsonText("tokB")

\* C31: when the token exchange of a device-code poll raises, the outcome is
\* decided by what the lowercased failure text contains: authorization_pending
\* gives pending; otherwise the first of invalid_grant, expired_token,
\* access_denied, invalid_client that the text contains gives an error with
\* that key's message; otherwise the request fails with 500, a raised
\* slow_down included.
C31_RaisedErrorMatching ==
    (event.op = "poll" /\ event.ret.k = "raise") =>
        LET error_str == Lower(event.ret.text)
            out == event.out
            Has(key) == \E i, j \in DOMAIN error_str :
                           SubSeq(error_str, i, j) = Text(key)
            Error(msg) == out = [http |-> 200, status |-> "error", error |-> msg]
        IN
        IF Has("authorization_pending")
        THEN out = [http |-> 200, status |-> "pending",
                    error |-> "authorization_pending"]
        ELSE IF Has("invalid_grant")
        THEN Error("The sign-in code has expired or was already used. Please start over.")
        ELSE IF Has("expired_token")
        THEN Error("The sign-in code has expired. Please start over.")
        ELSE IF Has("access_denied")
        THEN Error("Access was denied. Please try again and click 'Allow' on the Google page.")
        ELSE IF Has("invalid_client")
        THEN Error("OAuth client credentials are invalid. Please ask your admin to check the Client ID and Secret.")
        ELSE /\ out.http = 500
             /\ Has("slow_down") => out.status # "pending"

\* a poll whose token exchange raised "access_denied after invalid_grant" was
\* answered with the message of invalid_grant, the earlier key of the table
C31_Witness ==
    /\ event.op = "poll"
    /\ event.ret = [k |-> "raise", text |-> Text("access_denied after invalid_grant")]
    /\ event.out = [http |-> 200, status |-> "error",
                    error |-> "The sign-in code has expired or was already used. Please start over."]

\* the handle a request builds from the credentials c it was sent
OwnApi(c, request) ==
    [k |-> "api", token |-> c.access_token, user_id |-> c.user_id,
     country_code |-> c.country_code, by |-> request]

\* C32: the Track sidecar keeps no state across requests: the module-level
\* client is unset and the module-level lock is not held in every reachable
\* state; every search and download request builds a handle of its own from
\* the credentials sent with it, leaving the handles of the other requests
\* alone; and an album download keeps that one handle from its start to its
\* end and hands it to the download of every track.
C32_NoCrossRequestState ==
    /\ [](/\ tidal_api = NoApi
          /\ api_lock = "unlocked"
          /\ \A w \in Workers :
               workers[w].pc # "idle" =>
                  /\ api[w] # NoApi
                  /\ workers[w].owner = "track" => api[w].by = w
                  /\ workers[w].owner = "album" =>
                        api[w] = api["album"] /\ api[w].by = "album"
          /\ (event.op = "tidal_search" /\ event.http # 401)
                => event.api.by = "search")
    /\ [][\A c \in Credentials :
            /\ (/\ DownloadTrackRequest("w2", 3, c.access_token, c.user_id, c.country_code)
                /\ c.access_token # "")
                  => /\ api'["w2"] = OwnApi(c, "w2")
                     /\ \A r \in Requests \ { "w2" } : api'[r] = api[r]
            /\ (/\ AlbumRequest(c.access_token, c.user_id, c.country_code, "ok")
                /\ c.access_token # "")
                  => /\ api'["album"] = OwnApi(c, "album")
                     /\ \A r \in Requests \ { "album" } : api'[r] = api[r]
            /\ \A answer \in TidalSearchAnswers :
                 (/\ TidalSearch(c, answer)
                  /\ event' = TidalSearchResponse(c, answer)
                  /\ c.access_token # "")
                    => event'.api = OwnApi(c, "search") /\ api' = api
            /\ AlbumStartTrack("w1")
                  => api'["w1"] = api["album"] /\ api'["album"] = api["album"]
            /\ (api["album"] # NoApi /\ album'.pc # "idle")
                  => api'["album"] = api["album"]]_vars

\* the second track of an album requested with tokA is being downloaded with
\* the album's handle, after the first track failed, while a track requested
\* with tokB is being downloaded with a handle of its own, and a search sent
\* with tokB was just answered 429 with a third handle
C32_Witness ==
    /\ event = [op |-> "tidal_search", http |-> 429,
                api |-> BuildApi("tokB", "u2", "DE", "search")]
    /\ album.pc = "await"
    /\ album.i = 1
    /\ album.attempts[1].ended = "failed"
    /\ api["album"] = BuildApi("tokA", "u1", "US", "album")
    /\ api["w1"] = api["album"]
    /\ workers["w1"].pc = "move"
    /\ workers["w2"].pc = "writing"
    /\ api["w2"] = BuildApi("tokB", "u2", "DE", "w2")
    /\ tidal_api = NoApi
    /\ api_lock = "unlocked"

====
